---- MODULE Spec2Model ----
(***************************************************************************)
(* PAL, Vulkan backend: the command-stream translator.                     *)
(*                                                                         *)
(* The module models the submission orchestrator (submit_commands), the    *)
(* per-submission usage tracker (PipelineTracker, UsageScope), the global  *)
(* usage registry (GlobalResourceUsage), the queue object (VkQueue), the   *)
(* timeline garbage collector, descriptor-set updates and map_memory,      *)
(* together with a GPU that starts a native submission once its semaphore  *)
(* waits are satisfied and performs its signals when it finishes.  It also *)
(* models the calls as steps of threads that take the backend's locks, the *)
(* surface operations (acquire, present, update) and the drop of the       *)
(* handles and of the backend.                                             *)
(*                                                                         *)
(* Bit masks (vk::AccessFlags, vk::PipelineStageFlags) are sets of flag    *)
(* names: `a | b` is the union, `a.contains(b)` is `b \subseteq a`.        *)
(* HashMaps are functions with a finite domain; an absent key is a key     *)
(* outside DOMAIN.  Option<T> is the empty or the one-element sequence.    *)
(***************************************************************************)
EXTENDS Integers, Sequences, FiniteSets, TLC

VARIABLES
    queues,          \* QueueType -> VkQueue [target_value, free, allocated]
    counter,         \* QueueType -> value of the queue's timeline semaphore
    binary,          \* binary semaphore -> signalled
    gpu,             \* QueueType -> native submissions not yet finished, in call order
    resource_state,  \* the global usage registry (GlobalResourceUsage)
    bound,           \* DescriptorSet -> its binding elements (DescriptorSet.bound)
    live,            \* buffers whose frontend handle has not been dropped
    channel,         \* garbage sent by drop handlers, not yet received
    to_destroy,      \* GarbageCollector.to_destroy
    dropped,         \* observation: buffer -> the queues' targets when it was dropped
    destroyed,       \* observation: buffer -> the sweep that destroyed its native handle
    used,            \* SurfaceImage -> its `used` flag (signal_draw)
    panicked,        \* an assert! failed: the process is gone
    actual_layout,   \* observation: image sub-resource -> layout once all recorded
                     \* commands have executed
    hist,            \* observation: call counts, GPU completions, sets bound
    last,            \* observation: the most recent submit_commands call
    last_update,     \* observation: the most recent DescriptorSet::update call
    uses,            \* a usage scope under construction: the use_resource calls to make,
                     \* the calls made, the scope
    surfaces,        \* Surface -> [images_acquired, swapchain, views_destroyed, presenting]
    acquired,        \* observation: surface images acquired and not yet presented
    last_surface,    \* observation: the most recent surface operation and its result
    pc,              \* thread -> the operation it is in and its position in it
    locks,           \* lock -> [writer, readers]
    last_map,        \* observation: the most recent map_memory call and its result
    live_sets,       \* descriptor sets whose frontend handle has not been dropped
    alive,           \* the backend has not been dropped
    cb,              \* the command buffer a Queue::submit closure is recording
    last_job,        \* observation: the most recent wait_on or poll_status call
    render_passes,   \* RenderPassCache: [passes, created]
    framebuffers,    \* FramebufferCache: [pass_to_framebuffers, image_to_pass, created,
                     \* destroyed]
    cache_log        \* observation: the cache calls made, most recent last

vars == <<queues, counter, binary, gpu, resource_state, bound, live, channel, to_destroy,
          dropped, destroyed, used, panicked, actual_layout, hist, last, last_update,
          uses, surfaces, acquired, last_surface, pc, locks, last_map, live_sets, alive,
          cb, last_job, render_passes, framebuffers, cache_log>>

\* The variables of the backend proper.
backendVars == <<queues, counter, binary, gpu, resource_state, bound, live, channel,
                 to_destroy, dropped, destroyed, used, panicked, actual_layout, hist, last,
                 last_update>>

\* The variables of the usage-scope, surface, thread and shutdown parts of the model.
scopeVars == <<uses>>

surfaceVars == <<surfaces, acquired, last_surface>>

threadVars == <<pc, locks, last_map>>

shutdownVars == <<live_sets, alive>>

recordVars == <<cb>>

jobVars == <<last_job>>

cacheVars == <<render_passes, framebuffers, cache_log>>

\* The frontend command buffer, the jobs and the render pass and framebuffer caches.
objectVars == <<recordVars, jobVars, cacheVars>>

partVars == <<scopeVars, surfaceVars, threadVars, shutdownVars, objectVars>>

-----------------------------------------------------------------------------
(* Bounds of the model.                                                    *)

MaxSubmits == 3

MaxTrackSubmits == 2

MaxBlocks == 2

MaxQueueSubmits == 4

MaxUses == 3

MaxThreadSubmits == 2

MaxSwapchains == 3

\* Images of the swapchain create_surface made, calls of Surface::release per surface and
\* calls of acquire_image in the specification of the surface's native objects.
InitialImageCount == 2

MaxReleases == 3

MaxAcquires == 2

MaxShutdownSubmits == 2
\* Calls of submit_commands in the hand-off specification.
MaxHandoffSubmits == 3
\* Recording calls per command buffer and calls of Queue::submit in the recording
\* specification.
MaxRecorded == 2
\* Commands recorded in a compute pass and calls of submit_commands in the compute
\* specification.
MaxPassCommands == 4
MaxComputeSubmits == 1
\* Calls of submit_commands in the job specification.
MaxJobSubmits == 3
\* Calls of submit_commands in the fair specification.
MaxFairSubmits == 3
\* Blocks per command list and calls of submit_commands in the hazard specification.
MaxHazardBlocks == 3

\* Calls of the framebuffer cache in the specification of its guards.
MaxGuardCalls == 4
MaxHazardSubmits == 2
\* Calls of RenderPassCache::get, and of the FramebufferCache, in the cache specifications.
MaxPassGets == 3
MaxFramebufferCalls == 4
MaxRecordSubmits == 2

-----------------------------------------------------------------------------
(* Universes.                                                              *)

QueueTypes == {"Main", "Transfer", "Compute", "Present"}

Buffers == {"b1", "b2"}

Textures == {"t1"}

SurfaceImages == {"s1"}

DescriptorSets == {"ds1", "ds2"}

\* A buffer in device-local memory the CPU cannot see (MemoryUsage::GpuOnly); the other
\* buffers are CpuToGpu.
GpuOnlyBuffers == {"b3"}

\* Two surfaces; the surface images of the model are images of the first.
Surfaces == {"w1", "w2"}

Threads == {"t1", "t2"}

\* u32::MAX, the rank of a stage mask that is no single known stage.  Ranks are only
\* compared, so the largest integer TLC represents stands for it.
U32Max == 2147483647

EmptyMap == [k \in {} |-> 0]

Insert(f, k, v) == [x \in (DOMAIN f) \cup {k} |-> IF x = k THEN v ELSE f[x]]

Remove(f, k) == [x \in (DOMAIN f) \ {k} |-> f[x]]

Lookup(f, k) == IF k \in DOMAIN f THEN <<f[k]>> ELSE <<>>

UnwrapOrDefault(o, d) == IF o = <<>> THEN d ELSE o[1]

RECURSIVE SetToSeq(_)
SetToSeq(S) ==
    IF S = {} THEN <<>>
    ELSE LET x == CHOOSE y \in S : TRUE IN <<x>> \o SetToSeq(S \ {x})

-----------------------------------------------------------------------------
(* util/mod.rs                                                             *)

rank_pipeline_stage(stage) ==
    CASE stage = {"TOP_OF_PIPE"} -> 0
      [] stage = {"DRAW_INDIRECT"} -> 1
      [] stage = {"VERTEX_INPUT"} -> 2
      [] stage = {"VERTEX_SHADER"} -> 3
      [] stage = {"TESSELLATION_CONTROL_SHADER"} -> 4
      [] stage = {"TESSELLATION_EVALUATION_SHADER"} -> 5
      [] stage = {"GEOMETRY_SHADER"} -> 6
      [] stage = {"FRAGMENT_SHADER"} -> 7
      [] stage = {"EARLY_FRAGMENT_TESTS"} -> 8
      [] stage = {"LATE_FRAGMENT_TESTS"} -> 9
      [] stage = {"COLOR_ATTACHMENT_OUTPUT"} -> 10
      [] stage = {"TRANSFER"} -> 11
      [] stage = {"COMPUTE_SHADER"} -> 12
      [] stage = {"BOTTOM_OF_PIPE"} -> 13
      [] OTHER -> U32Max

-----------------------------------------------------------------------------
(* util/usage.rs: sub-resources, usage scopes, the global registry.        *)

BufferSub(buffer, array_elem) ==
    [kind |-> "Buffer", h |-> buffer, aspect |-> "NONE", elem |-> array_elem, mip |-> 0]

TextureSub(texture, aspect_mask, array_elem, mip_level) ==
    [kind |-> "Texture", h |-> texture, aspect |-> aspect_mask, elem |-> array_elem,
     mip |-> mip_level]

Usage(access, stage, layout) == [access |-> access, stage |-> stage, layout |-> layout]

DefaultUsage == Usage({}, {}, "UNDEFINED")

QueueUsage(queue, timeline_value) == [queue |-> queue, timeline_value |-> timeline_value]

EmptyGlobal ==
    [sets |-> EmptyMap, buffers |-> EmptyMap, images |-> EmptyMap, image_layouts |-> EmptyMap]

\* Each register_* returns the registry after the call and the previous entry.
register_set(g, set, usage) ==
    [global |-> [g EXCEPT !.sets = IF usage = <<>> THEN Remove(@, set)
                                   ELSE Insert(@, set, usage[1])],
     old |-> Lookup(g.sets, set)]

register_buffer(g, buffer, array_elem, usage) ==
    [global |-> [g EXCEPT !.buffers = IF usage = <<>> THEN Remove(@, <<buffer, array_elem>>)
                                      ELSE Insert(@, <<buffer, array_elem>>, usage[1])],
     old |-> Lookup(g.buffers, <<buffer, array_elem>>)]

register_image(g, image, array_elem, usage) ==
    [global |-> [g EXCEPT !.images = IF usage = <<>> THEN Remove(@, <<image, array_elem>>)
                                     ELSE Insert(@, <<image, array_elem>>, usage[1])],
     old |-> Lookup(g.images, <<image, array_elem>>)]

register_layout(g, image, array_elem, mip_level, layout) ==
    [global |-> [g EXCEPT !.image_layouts = Insert(@, <<image, array_elem, mip_level>>, layout)],
     old |-> UnwrapOrDefault(Lookup(g.image_layouts, <<image, array_elem, mip_level>>),
                             "UNDEFINED")]

\* UsageScope: `usages` is the map, `panicked` records a failed assert!.
EmptyScope == [usages |-> EmptyMap, panicked |-> FALSE]

\* use_resource without its assert!.
use_resource_unchecked(scope, subresource, usage) ==
    LET entry == UnwrapOrDefault(Lookup(scope.usages, subresource), DefaultUsage)
    IN  [scope EXCEPT !.usages =
            Insert(@, subresource,
                   Usage(entry.access \cup usage.access, entry.stage \cup usage.stage,
                         usage.layout))]

use_resource(scope, subresource, usage) ==
    LET entry == UnwrapOrDefault(Lookup(scope.usages, subresource), DefaultUsage)
    IN  IF scope.panicked \/ ~(entry.layout = "UNDEFINED" \/ entry.layout = usage.layout)
        THEN [scope EXCEPT !.panicked = TRUE]
        ELSE [scope EXCEPT !.usages =
                 Insert(@, subresource,
                        Usage(entry.access \cup usage.access, entry.stage \cup usage.stage,
                              usage.layout))]

read_accesses ==
    {"MEMORY_READ", "SHADER_READ", "UNIFORM_READ", "TRANSFER_READ", "COLOR_ATTACHMENT_READ",
     "INDIRECT_COMMAND_READ", "VERTEX_ATTRIBUTE_READ", "INDEX_READ",
     "DEPTH_STENCIL_ATTACHMENT_READ"}

\* PipelineTracker::new
PipelineTracker_new(global, queue_ty, next_value) ==
    [global |-> global, queue_ty |-> queue_ty, next_value |-> next_value,
     usages |-> EmptyMap, queues |-> EmptyMap]

\* The registry calls at the head of the loop body: the previous queue usage and the
\* previous layout of the sub-resource, and the registry after the calls.
RegisterUsage(global, resource, resc_usage, layout) ==
    IF resource.kind = "Buffer"
    THEN LET r == register_buffer(global, resource.h, resource.elem, <<resc_usage>>)
         IN  [global |-> r.global, old_queue_usage |-> r.old, old_layout |-> "UNDEFINED"]
    ELSE LET r == register_image(global, resource.h, resource.elem, <<resc_usage>>)
             l == register_layout(r.global, resource.h, resource.elem, resource.mip, layout)
         IN  [global |-> l.global, old_queue_usage |-> r.old, old_layout |-> l.old]

\* The stage a wait on another queue is registered at, selected from the stage mask.
new_stage(stage) ==
    IF {"BOTTOM_OF_PIPE"} \subseteq stage THEN {"BOTTOM_OF_PIPE"}
    ELSE IF {"COMPUTE_SHADER"} \subseteq stage THEN {"COMPUTE_SHADER"}
    ELSE IF {"TRANSFER"} \subseteq stage THEN {"TRANSFER"}
    ELSE IF {"COLOR_ATTACHMENT_OUTPUT"} \subseteq stage THEN {"COLOR_ATTACHMENT_OUTPUT"}
    ELSE IF {"LATE_FRAGMENT_TESTS"} \subseteq stage THEN {"LATE_FRAGMENT_TESTS"}
    ELSE IF {"EARLY_FRAGMENT_TESTS"} \subseteq stage THEN {"EARLY_FRAGMENT_TESTS"}
    ELSE IF {"FRAGMENT_SHADER"} \subseteq stage THEN {"FRAGMENT_SHADER"}
    ELSE IF {"GEOMETRY_SHADER"} \subseteq stage THEN {"GEOMETRY_SHADER"}
    ELSE IF {"TESSELLATION_EVALUATION_SHADER"} \subseteq stage
         THEN {"TESSELLATION_EVALUATION_SHADER"}
    ELSE IF {"TESSELLATION_CONTROL_SHADER"} \subseteq stage
         THEN {"TESSELLATION_CONTROL_SHADER"}
    ELSE IF {"VERTEX_SHADER"} \subseteq stage THEN {"VERTEX_SHADER"}
    ELSE IF {"VERTEX_INPUT"} \subseteq stage THEN {"VERTEX_INPUT"}
    ELSE IF {"DRAW_INDIRECT"} \subseteq stage THEN {"DRAW_INDIRECT"}
    ELSE {"TOP_OF_PIPE"}

\* `queues` after the check "was this resource last used by a queue other than us".
UpdateWaitQueues(wait_queues, old_queue_usage, queue_ty, usage) ==
    IF old_queue_usage # <<>> /\ old_queue_usage[1].queue # queue_ty
    THEN LET old == old_queue_usage[1].queue
             entry == UnwrapOrDefault(Lookup(wait_queues, old), {"BOTTOM_OF_PIPE"})
         IN  Insert(wait_queues, old,
                    IF rank_pipeline_stage(new_stage(usage.stage)) < rank_pipeline_stage(entry)
                    THEN new_stage(usage.stage) ELSE entry)
    ELSE wait_queues

\* A tracker that takes only the accesses into account, not the layouts.
NeedsBarrierForAccess(old_layout, usage, previous) ==
    /\ previous # <<>>
    /\ ~(previous[1].access \subseteq read_accesses /\ usage.access \subseteq read_accesses)

\* A tracker that looks at the new access only: a read never needs a barrier.
NeedsBarrierForWrite(old_layout, usage, previous) ==
    \/ old_layout # usage.layout
    \/ /\ previous # <<>>
       /\ ~(usage.access \subseteq read_accesses)

\* "Barrier is required if we have mismatching image layouts", or if the previous usage
\* in this submission and the new one are anything other than read-after-read.
NeedsBarrier(old_layout, usage, previous) ==
    \/ old_layout # usage.layout
    \/ /\ previous # <<>>
       /\ ~(previous[1].access \subseteq read_accesses /\ usage.access \subseteq read_accesses)

\* A tracker that orders a first use after everything submitted before it.
BarrierSourceAllCommands(previous) ==
    IF previous # <<>> THEN [access |-> previous[1].access, stage |-> previous[1].stage]
    ELSE [access |-> {"MEMORY_WRITE"}, stage |-> {"ALL_COMMANDS"}]

\* (src_access, src_stage) of the barrier.
BarrierSource(previous) ==
    IF previous # <<>> THEN [access |-> previous[1].access, stage |-> previous[1].stage]
    ELSE [access |-> {}, stage |-> {"TOP_OF_PIPE"}]

BufferMemoryBarrier(src_access, dst_access, buffer, array_elem) ==
    [src_access_mask |-> src_access, dst_access_mask |-> dst_access, buffer |-> buffer,
     array_elem |-> array_elem]

ImageMemoryBarrier(src_access, dst_access, old_layout, new_layout, resource) ==
    [src_access_mask |-> src_access, dst_access_mask |-> dst_access,
     old_layout |-> old_layout, new_layout |-> new_layout, image |-> resource.h,
     aspect_mask |-> resource.aspect, base_mip_level |-> resource.mip,
     base_array_layer |-> resource.elem]

\* The barrier maps and the stages of the pipeline barrier under construction after the
\* iteration has pushed the barrier of one resource.
PushBarrier(acc, resource, usage, old_layout, src) ==
    [acc EXCEPT
        !.buffer_barriers =
            IF resource.kind = "Buffer"
            THEN Insert(@, <<resource.h, resource.elem>>,
                        BufferMemoryBarrier(src.access, usage.access, resource.h,
                                            resource.elem))
            ELSE @,
        !.image_barriers =
            IF resource.kind = "Texture"
            THEN Insert(@, <<resource.h, resource.elem, resource.mip>>,
                        ImageMemoryBarrier(src.access, usage.access, old_layout,
                                           usage.layout, resource))
            ELSE @,
        !.dst_stage = @ \cup usage.stage,
        !.src_stage = @ \cup src.stage]

\* The loop body once the registry calls (reg) and the lookup of the previous usage in
\* this submission (previous) have been made.
AnalyzeRegistered(acc, resource, usage, reg, previous) ==
    [(IF NeedsBarrier(reg.old_layout, usage, previous)
      THEN PushBarrier(acc, resource, usage, reg.old_layout, BarrierSource(previous))
      ELSE acc)
     EXCEPT !.tracker =
         [@ EXCEPT !.global = reg.global,
                   !.queues = UpdateWaitQueues(@, reg.old_queue_usage,
                                               acc.tracker.queue_ty, usage),
                   !.usages = Insert(@, resource, usage)]]

\* One iteration of "Analyze each usage".  acc carries the tracker, the two barrier maps
\* and the stages of the pipeline barrier under construction.
Analyze(acc, resource, usage) ==
    AnalyzeRegistered(acc, resource, usage,
                      RegisterUsage(acc.tracker.global, resource,
                                    QueueUsage(acc.tracker.queue_ty, acc.tracker.next_value),
                                    usage.layout),
                      Lookup(acc.tracker.usages, resource))

RECURSIVE AnalyzeAll(_, _, _)
AnalyzeAll(acc, usages, order) ==
    IF order = <<>> THEN acc
    ELSE AnalyzeAll(Analyze(acc, order[1], usages[order[1]]), usages, Tail(order))

\* The value PipelineTracker::submit returns: the barrier, if any resource needs one.
BarrierResult(acc) ==
    [tracker |-> acc.tracker,
     barrier |->
         IF DOMAIN acc.image_barriers # {} \/ DOMAIN acc.buffer_barriers # {}
         THEN <<[src_stage |-> acc.src_stage, dst_stage |-> acc.dst_stage,
                 buffer_barriers |->
                     {acc.buffer_barriers[k] : k \in DOMAIN acc.buffer_barriers},
                 image_barriers |->
                     {acc.image_barriers[k] : k \in DOMAIN acc.image_barriers}]>>
         ELSE <<>>]

\* PipelineTracker::submit.  `order` is the order in which the scope's map is iterated.
\* Returns the tracker after the call and the optional pipeline barrier.
PipelineTracker_submit(pt, scope, order) ==
    BarrierResult(AnalyzeAll([tracker |-> pt, buffer_barriers |-> EmptyMap,
                              image_barriers |-> EmptyMap, dst_stage |-> {},
                              src_stage |-> {}],
                             scope.usages, order))

-----------------------------------------------------------------------------
(* Semaphores.  A semaphore is <<"timeline", queue>>, <<"available", image>> or          *)
(* <<"presentable", image>>.  The semaphore tracker keeps, per semaphore, the maximum    *)
(* wait value and the earliest wait stage, and per signalled semaphore its value.        *)

TimelineSemaphore(queue) == <<"timeline", queue>>

SurfaceSemaphores(image) ==
    [available |-> <<"available", image>>, presentable |-> <<"presentable", image>>]

WaitInfo(value, stage) == [value |-> value, stage |-> stage]

EmptySemaphoreTracker == [waits |-> EmptyMap, signals |-> EmptyMap]

MaxValue(a, b) ==
    IF a = <<>> THEN b ELSE IF b = <<>> THEN a ELSE IF a[1] >= b[1] THEN a ELSE b

EarlierStage(a, b) == IF rank_pipeline_stage(b) < rank_pipeline_stage(a) THEN b ELSE a

register_wait(tracker, semaphore, info) ==
    [tracker EXCEPT !.waits =
        IF semaphore \in DOMAIN @
        THEN Insert(@, semaphore, WaitInfo(MaxValue(@[semaphore].value, info.value),
                                          EarlierStage(@[semaphore].stage, info.stage)))
        ELSE Insert(@, semaphore, info)]

register_signal(tracker, semaphore, value) ==
    [tracker EXCEPT !.signals = Insert(@, semaphore, value)]

-----------------------------------------------------------------------------
(* render_pass.rs: the layouts of the attachments of the native render pass.             *)

AttachmentInitialLayout(load_op) ==
    IF load_op = "Load" THEN "COLOR_ATTACHMENT_OPTIMAL" ELSE "UNDEFINED"

SurfaceFinalLayout == "PRESENT_SRC_KHR"

TextureFinalLayout == "COLOR_ATTACHMENT_OPTIMAL"

AttachmentFinalLayout(source) ==
    IF source = "SurfaceImage" THEN SurfaceFinalLayout ELSE TextureFinalLayout

-----------------------------------------------------------------------------
(* util/tracking.rs.  A TrackState carries the pipeline tracker, the semaphore tracker,  *)
(* the native command buffer being recorded (`stream`) and, for observation, one record  *)
(* per usage scope submitted (`scopes`).                                                 *)

Reverse(s) == [i \in 1..Len(s) |-> s[Len(s) + 1 - i]]

\* The order in which a scope's hash map is iterated: unspecified, so one of two
\* opposite orders is chosen by the caller.
ScopeOrder(scope, reversed) ==
    IF reversed THEN Reverse(SetToSeq(DOMAIN scope.usages)) ELSE SetToSeq(DOMAIN scope.usages)

\* The track state after a scope's submit returned r: the barrier, if any, is executed
\* on the command buffer; the scope is logged for observation.
ExecuteBarrier(state, scope, r) ==
    [state EXCEPT
        !.pipeline_tracker = r.tracker,
        !.stream = IF r.barrier = <<>> THEN @
                   ELSE Append(@, [op |-> "PipelineBarrier", barrier |-> r.barrier[1]]),
        !.scopes = Append(@, [index |-> state.index,
                              usages |-> scope.usages,
                              layouts_before |->
                                  state.pipeline_tracker.global.image_layouts,
                              layouts_after |-> r.tracker.global.image_layouts,
                              usages_before |-> state.pipeline_tracker.usages,
                              barrier |-> r.barrier])]

\* "if let Some(barrier) = state.pipeline_tracker.submit(scope) { barrier.execute(..) }"
SubmitScope(state, scope, reversed) ==
    IF scope.panicked THEN [state EXCEPT !.panicked = TRUE]
    ELSE ExecuteBarrier(state, scope,
                        PipelineTracker_submit(state.pipeline_tracker, scope,
                                               ScopeOrder(scope, reversed)))

RECURSIVE track_descriptor_elems(_, _)
track_descriptor_elems(binding, scope) ==
    IF binding = <<>> THEN scope
    ELSE LET elem == binding[1]
             value == elem[1].value
             used_scope ==
                 IF elem = <<>> THEN scope
                 ELSE IF value.kind \in {"UniformBuffer", "StorageBuffer"}
                 THEN use_resource(scope, BufferSub(value.buffer, value.array_element),
                                   Usage(elem[1].access, elem[1].stage, "UNDEFINED"))
                 ELSE LET RECURSIVE mips(_, _)
                          mips(sc, i) ==
                              IF i >= value.mip_count THEN sc
                              ELSE mips(use_resource(sc,
                                            TextureSub(value.image, value.aspect_mask,
                                                       value.array_element, i),
                                            Usage(elem[1].access, elem[1].stage,
                                                  "SHADER_READ_ONLY_OPTIMAL")),
                                        i + 1)
                      IN  mips(scope, 0)
         IN  track_descriptor_elems(Tail(binding), used_scope)

track_descriptor_set(set, scope) == track_descriptor_elems(bound[set], scope)

RECURSIVE track_descriptor_sets(_, _)
track_descriptor_sets(sets, scope) ==
    IF sets = <<>> THEN scope
    ELSE track_descriptor_sets(Tail(sets), track_descriptor_set(sets[1], scope))

ColorAttachmentUsage ==
    Usage({"COLOR_ATTACHMENT_WRITE", "COLOR_ATTACHMENT_READ"}, {"COLOR_ATTACHMENT_OUTPUT"},
          "COLOR_ATTACHMENT_OPTIMAL")

DepthStencilAttachmentUsage ==
    Usage({"DEPTH_STENCIL_ATTACHMENT_READ", "DEPTH_STENCIL_ATTACHMENT_WRITE"},
          {"EARLY_FRAGMENT_TESTS", "LATE_FRAGMENT_TESTS"}, "DEPTH_STENCIL_ATTACHMENT_OPTIMAL")

ColorAttachmentSubResource(attachment) ==
    IF attachment.source = "SurfaceImage"
    THEN TextureSub(attachment.image, "COLOR", 0, 0)
    ELSE TextureSub(attachment.image, "COLOR", attachment.array_element, attachment.mip_level)

\* The wait on `available` without the signal of `presentable`.
RegisterSurfaceWaitOnly(semaphores, attachment) ==
    IF attachment.source = "SurfaceImage"
    THEN register_wait(semaphores, SurfaceSemaphores(attachment.image).available,
                       WaitInfo(<<>>, {"COLOR_ATTACHMENT_OUTPUT"}))
    ELSE semaphores

\* The semaphores of a surface image used as an attachment.
RegisterSurfaceSemaphores(semaphores, attachment) ==
    IF attachment.source = "SurfaceImage"
    THEN register_wait(register_signal(semaphores,
                                       SurfaceSemaphores(attachment.image).presentable, <<>>),
                       SurfaceSemaphores(attachment.image).available,
                       WaitInfo(<<>>, {"COLOR_ATTACHMENT_OUTPUT"}))
    ELSE semaphores

RECURSIVE TrackColorAttachments(_, _)
TrackColorAttachments(acc, attachments) ==
    IF attachments = <<>> THEN acc
    ELSE TrackColorAttachments(
             [semaphores |-> RegisterSurfaceSemaphores(acc.semaphores, attachments[1]),
              scope |-> use_resource(acc.scope, ColorAttachmentSubResource(attachments[1]),
                                     ColorAttachmentUsage)],
             Tail(attachments))

TrackDepthStencil(scope, depth_stencil_attachment) ==
    IF depth_stencil_attachment = <<>> THEN scope
    ELSE LET attachment == depth_stencil_attachment[1]
         IN  use_resource(scope,
                          TextureSub(attachment.image, attachment.aspect_flags,
                                     attachment.array_element, attachment.mip_level),
                          DepthStencilAttachmentUsage)

RECURSIVE TrackVertexBinds(_, _)
TrackVertexBinds(scope, binds) ==
    IF binds = <<>> THEN scope
    ELSE TrackVertexBinds(
             use_resource(scope, BufferSub(binds[1].buffer, binds[1].array_element),
                          Usage({"VERTEX_ATTRIBUTE_READ"}, {"VERTEX_INPUT"}, "UNDEFINED")),
             Tail(binds))

\* "Track everything else": the commands from `i` up to the next EndRenderPass.
RECURSIVE TrackPassCommands(_, _, _)
TrackPassCommands(scope, commands, i) ==
    IF i > Len(commands) \/ commands[i].op = "EndRenderPass" THEN scope
    ELSE TrackPassCommands(
             CASE commands[i].op = "BindVertexBuffers" ->
                      TrackVertexBinds(scope, commands[i].binds)
               [] commands[i].op = "BindIndexBuffer" ->
                      use_resource(scope,
                                   BufferSub(commands[i].buffer, commands[i].array_element),
                                   Usage({"INDEX_READ"}, {"VERTEX_INPUT"}, "UNDEFINED"))
               [] commands[i].op = "BindDescriptorSets" ->
                      track_descriptor_sets(commands[i].sets, scope)
               [] OTHER -> scope,
             commands, i + 1)

track_render_pass(state, commands, descriptor, reversed) ==
    LET colors == TrackColorAttachments([semaphores |-> state.semaphores, scope |-> EmptyScope],
                                        descriptor.color_attachments)
        depth == TrackDepthStencil(colors.scope, descriptor.depth_stencil_attachment)
        scope == TrackPassCommands(depth, commands, state.index)
    IN  SubmitScope([state EXCEPT !.semaphores = colors.semaphores], scope, reversed)

\* The index of the bound compute pipeline, searching backwards from `i` and stopping at
\* BeginComputePass.
RECURSIVE FindBoundPipeline(_, _)
FindBoundPipeline(commands, i) ==
    IF i < 1 THEN <<>>
    ELSE IF commands[i].op = "BindComputePipeline" THEN <<i>>
    ELSE IF commands[i].op = "BeginComputePass" THEN <<>>
    ELSE FindBoundPipeline(commands, i - 1)

\* "Track sets": the slots first .. first + len - 1 of one BindDescriptorSets command.
RECURSIVE TrackSetSlots(_, _, _, _)
TrackSetSlots(acc, sets, first, i) ==
    IF i > Len(sets) THEN acc
    ELSE IF (first + i - 1) \in acc.bound_slots THEN TrackSetSlots(acc, sets, first, i + 1)
    ELSE TrackSetSlots([scope |-> track_descriptor_set(sets[i], acc.scope),
                        bound_slots |-> acc.bound_slots \cup {first + i - 1}],
                       sets, first, i + 1)

\* "Determine which sets are actually used": commands idx ..= index, latest first.
RECURSIVE GatherBoundSets(_, _, _, _, _)
GatherBoundSets(acc, commands, i, idx, layouts) ==
    IF i < idx \/ Cardinality(acc.bound_slots) = layouts THEN acc.scope
    ELSE IF commands[i].op # "BindDescriptorSets"
    THEN GatherBoundSets(acc, commands, i - 1, idx, layouts)
    ELSE GatherBoundSets(TrackSetSlots(acc, commands[i].sets, commands[i].first, 1),
                         commands, i - 1, idx, layouts)

track_dispatch(state, commands, reversed) ==
    LET idx == FindBoundPipeline(commands, state.index)
    IN  IF idx = <<>> THEN state
        ELSE SubmitScope(state,
                         GatherBoundSets([scope |-> EmptyScope, bound_slots |-> {}], commands,
                                         state.index, idx[1], commands[idx[1]].layouts),
                         reversed)

track_buffer_to_buffer_copy(state, copy, reversed) ==
    SubmitScope(state,
        use_resource(
            use_resource(EmptyScope, BufferSub(copy.src, copy.src_array_element),
                         Usage({"TRANSFER_READ"}, {"TRANSFER"}, "UNDEFINED")),
            BufferSub(copy.dst, copy.dst_array_element),
            Usage({"TRANSFER_WRITE"}, {"TRANSFER"}, "UNDEFINED")),
        reversed)

track_buffer_to_texture_copy(state, copy, reversed) ==
    SubmitScope(state,
        use_resource(
            use_resource(EmptyScope, BufferSub(copy.buffer, copy.buffer_array_element),
                         Usage({"TRANSFER_READ"}, {"TRANSFER"}, "UNDEFINED")),
            TextureSub(copy.texture, copy.aspect_flags, copy.texture_array_element,
                       copy.texture_mip_level),
            Usage({"TRANSFER_WRITE"}, {"TRANSFER"}, "TRANSFER_DST_OPTIMAL")),
        reversed)

track_texture_to_buffer_copy(state, copy, reversed) ==
    SubmitScope(state,
        use_resource(
            use_resource(EmptyScope, BufferSub(copy.buffer, copy.buffer_array_element),
                         Usage({"TRANSFER_WRITE"}, {"TRANSFER"}, "UNDEFINED")),
            TextureSub(copy.texture, copy.aspect_flags, copy.texture_array_element,
                       copy.texture_mip_level),
            Usage({"TRANSFER_READ"}, {"TRANSFER"}, "TRANSFER_SRC_OPTIMAL")),
        reversed)

track_resources(state, commands, reversed) ==
    LET command == commands[state.index]
    IN  CASE command.op = "BeginRenderPass" ->
                 track_render_pass(state, commands, command, reversed)
          [] command.op = "Dispatch" -> track_dispatch(state, commands, reversed)
          [] command.op = "CopyBufferToBuffer" ->
                 track_buffer_to_buffer_copy(state, command, reversed)
          [] command.op = "CopyBufferToTexture" ->
                 track_buffer_to_texture_copy(state, command, reversed)
          [] command.op = "CopyTextureToBuffer" ->
                 track_texture_to_buffer_copy(state, command, reversed)
          [] OTHER -> state

-----------------------------------------------------------------------------
(* queue.rs.  A VkQueue is [target_value, free, allocated]: `free` is the FIFO of        *)
(* submitted command buffers with their targets, `allocated` counts the command buffers  *)
(* taken from the pool (command buffer n of a queue is the n-th one allocated).          *)

VkQueue_new == [target_value |-> 0, free |-> <<>>, allocated |-> 0]

InitialSemaphoreValue == 0

target_timeline_value(queue) == queue.target_value

\* A queue that reuses the front of the FIFO whatever the counter says.
CanReuseFront(cur_value, free) == free # <<>>

\* "Attempt to get free command buffer"
CanReuse(cur_value, free) == free # <<>> /\ cur_value >= free[1].target

allocate_command_buffer(queue, cur_value) ==
    IF CanReuse(cur_value, queue.free)
    THEN [queue |-> [queue EXCEPT !.free = Tail(@)],
          command_buffer |-> queue.free[1].command_buffer,
          recycled |-> TRUE]
    ELSE [queue |-> [queue EXCEPT !.allocated = @ + 1],
          command_buffer |-> queue.allocated + 1,
          recycled |-> FALSE]

\* A queue whose submissions wait for the initial value of its semaphore.
SelfWaitInitial(target_value) == WaitInfo(<<InitialSemaphoreValue>>, {"TOP_OF_PIPE"})

\* A queue that signals the value it waits for.
SelfSignalWaited(target_value) == target_value

\* A queue whose target advances by two per submit.
NextTargetByTwo(target_value) == target_value + 2

\* "Always signal and wait on ourselves"
SelfWait(target_value) == WaitInfo(<<target_value>>, {"TOP_OF_PIPE"})

SelfSignal(target_value) == target_value + 1

NextTarget(target_value) == target_value + 1

\* VkQueue::submit: the queue after the call and the native submission handed to the
\* device (waits with value and stage, signals in the order they are pushed).
VkQueue_submit(queue, ty, command_buffer, semaphore_tracker) ==
    LET semaphores ==
            register_signal(
                register_wait(semaphore_tracker, TimelineSemaphore(ty),
                              SelfWait(queue.target_value)),
                TimelineSemaphore(ty), <<SelfSignal(queue.target_value)>>)
        target == NextTarget(queue.target_value)
    IN  [queue |-> [queue EXCEPT !.target_value = target,
                                 !.free = Append(@, [command_buffer |-> command_buffer,
                                                     target |-> target])],
         native |->
            [command_buffer |-> command_buffer,
             waits |-> {[semaphore |-> s,
                         value |-> UnwrapOrDefault(semaphores.waits[s].value, 0),
                         stage |-> semaphores.waits[s].stage] : s \in DOMAIN semaphores.waits},
             signals |->
                <<[semaphore |-> TimelineSemaphore(ty), value |-> target]>> \o
                SetToSeq({[semaphore |-> s,
                           value |-> UnwrapOrDefault(semaphores.signals[s], 0)] :
                          s \in DOMAIN semaphores.signals})]]

-----------------------------------------------------------------------------
(* util/resource_state.rs                                                                *)

set_buffer(g, buffer, array_elem, usage) == register_buffer(g, buffer, array_elem, usage)

\* A wait on the value the other queue is given by its next submission.
wait_for_next_value(usage_queue, tracker, new_queue, stage) ==
    IF usage_queue # new_queue
    THEN register_wait(tracker, TimelineSemaphore(usage_queue),
                       WaitInfo(<<target_timeline_value(queues[usage_queue]) + 1>>, stage))
    ELSE tracker

\* LatestUsage::wait_if_needed, for a resource last used on `usage_queue`: the wait is on
\* that queue's semaphore, for the target value the queue has now.
wait_if_needed(usage_queue, tracker, new_queue, stage) ==
    IF usage_queue # new_queue
    THEN register_wait(tracker, TimelineSemaphore(usage_queue),
                       WaitInfo(<<target_timeline_value(queues[usage_queue])>>, stage))
    ELSE tracker

-----------------------------------------------------------------------------
(* util/garbage_collector.rs, buffer.rs, texture.rs                                      *)

TimelineValues(main, transfer, compute) ==
    [main |-> main, transfer |-> transfer, compute |-> compute]

\* The counters and the targets of the three queues, as submit_commands snapshots them.
CurrentValues == TimelineValues(counter["Main"], counter["Transfer"], counter["Compute"])

TargetValues ==
    TimelineValues(target_timeline_value(queues["Main"]),
                   target_timeline_value(queues["Transfer"]),
                   target_timeline_value(queues["Compute"]))

GarbageBuffer(buffer) == [kind |-> "Buffer", buffer |-> buffer]

\* The garbage record of a dropped descriptor set; it carries the set's bindings.
GarbageSet(set) == [kind |-> "DescriptorSet", set |-> set]

\* Holders of clones of a buffer's reference counter: the frontend handle, the garbage
\* record sent when the handle is dropped, and every descriptor binding of the buffer,
\* held by a set or by the garbage record of a dropped set.
strong_count(buffer, garbage) ==
    (IF buffer \in live THEN 1 ELSE 0)
    + Cardinality({i \in DOMAIN garbage : garbage[i] = GarbageBuffer(buffer)})
    + Cardinality({<<s, i>> \in DescriptorSets \X {1} :
                      /\ s \in live_sets \/ \E j \in DOMAIN garbage : garbage[j] = GarbageSet(s)
                      /\ bound[s][i] # <<>>
                      /\ bound[s][i][1].value.kind \in {"UniformBuffer", "StorageBuffer"}
                      /\ bound[s][i][1].value.buffer = buffer})

is_last(count) == count = 1

\* An intake that stamps the garbage with the counters the semaphores start at.
IntakeUnstamped(pending, received, target) ==
    pending \o [i \in 1..Len(received) |->
                   [garbage |-> received[i],
                    values |-> TimelineValues(InitialSemaphoreValue, InitialSemaphoreValue,
                                              InitialSemaphoreValue)]]

\* "Receive all incoming garbage"
Intake(pending, received, target) ==
    pending \o [i \in 1..Len(received) |-> [garbage |-> received[i], values |-> target]]

\* A collector that compares the main queue's counter only.
MarkedByMainOnly(pending, current) ==
    {i \in DOMAIN pending :
        /\ pending[i].garbage.kind = "Buffer" =>
               is_last(strong_count(pending[i].garbage.buffer,
                                    [j \in DOMAIN pending |-> pending[j].garbage]))
        /\ pending[i].values.main <= current.main}

\* "Mark everything that is not being used by any queue"
Marked(pending, current) ==
    {i \in DOMAIN pending :
        /\ pending[i].garbage.kind = "Buffer" =>
               is_last(strong_count(pending[i].garbage.buffer,
                                    [j \in DOMAIN pending |-> pending[j].garbage]))
        /\ pending[i].values.main <= current.main
        /\ pending[i].values.transfer <= current.transfer
        /\ pending[i].values.compute <= current.compute}

RECURSIVE Keep(_, _, _)
Keep(pending, marked, i) ==
    IF i > Len(pending) THEN <<>>
    ELSE (IF i \in marked THEN <<>> ELSE <<pending[i]>>) \o Keep(pending, marked, i + 1)

\* GarbageCollector::cleanup: the list kept and the garbage destroyed by this sweep.
cleanup(pending, received, current, target) ==
    LET all == Intake(pending, received, target)
        marked == Marked(all, current)
    IN  [to_destroy |-> Keep(all, marked, 1),
         destroyed |-> {all[i].garbage : i \in marked}]

-----------------------------------------------------------------------------
(* lib.rs: submit_commands.  The registry and semaphore work of each command is that of  *)
(* util/tracking.rs; the command is then recorded into the native command buffer.        *)

next_target_value(queue) == target_timeline_value(queues[queue]) + 1

RECURSIVE RenderPassAttachments(_)
RenderPassAttachments(attachments) ==
    IF attachments = <<>> THEN <<>>
    ELSE <<[resource |-> ColorAttachmentSubResource(attachments[1]),
            initial_layout |-> AttachmentInitialLayout(attachments[1].load_op),
            final_layout |-> AttachmentFinalLayout(attachments[1].source)]>>
         \o RenderPassAttachments(Tail(attachments))

RECURSIVE RegisterAllSurfaceSemaphores(_, _)
RegisterAllSurfaceSemaphores(semaphores, attachments) ==
    IF attachments = <<>> THEN semaphores
    ELSE RegisterAllSurfaceSemaphores(RegisterSurfaceSemaphores(semaphores, attachments[1]),
                                      Tail(attachments))

SurfaceImagesOf(attachments) ==
    {attachments[i].image : i \in {j \in DOMAIN attachments :
                                      attachments[j].source = "SurfaceImage"}}

\* lib.rs, find_render_pass_resources, "Handle vertex/index buffers": the loop over the
\* command list handed in, up to the first EndRenderPass.
RECURSIVE FindPassBuffers(_, _)
FindPassBuffers(commands, i) ==
    IF i > Len(commands) \/ commands[i].op = "EndRenderPass" THEN <<>>
    ELSE (CASE commands[i].op = "BindVertexBuffers" ->
                   [j \in DOMAIN commands[i].binds |->
                       [buffer |-> commands[i].binds[j].buffer, used |-> {"VERTEX_INPUT"},
                        access |-> {"VERTEX_ATTRIBUTE_READ"}]]
            [] commands[i].op = "BindIndexBuffer" ->
                   <<[buffer |-> commands[i].buffer, used |-> {"VERTEX_INPUT"},
                      access |-> {"INDEX_READ"}]>>
            [] OTHER -> <<>>)
         \o FindPassBuffers(commands, i + 1)

\* lib.rs, find_render_pass_resources: the buffers and images handed to the tracker for
\* the render pass `descriptor`; `commands` is the slice the caller passes.
find_render_pass_resources(descriptor, commands) ==
    [buffers |-> FindPassBuffers(commands, 1),
     images |-> [j \in DOMAIN descriptor.color_attachments |->
                    [image |-> descriptor.color_attachments[j].image,
                     used |-> {"COLOR_ATTACHMENT_OUTPUT"},
                     access |-> {"COLOR_ATTACHMENT_WRITE", "COLOR_ATTACHMENT_READ"}]]]

\* submit_commands, lib.rs 291-299: the "barrier check" of every BeginRenderPass of the
\* list is called with the whole list.
BarrierChecks(commands) ==
    [i \in {k \in DOMAIN commands : commands[k].op = "BeginRenderPass"} |->
        find_render_pass_resources(commands[i], commands)]

\* The arm of "Interpret commands" for one command, after its resources were tracked.
encode(state, command) ==
    IF command.op = "BeginRenderPass"
    THEN [state EXCEPT
             !.signal_draw = @ \cup SurfaceImagesOf(command.color_attachments),
             !.semaphores = RegisterAllSurfaceSemaphores(@, command.color_attachments),
             !.stream = Append(@, [op |-> "BeginRenderPass",
                                   attachments |->
                                       RenderPassAttachments(command.color_attachments)])]
    ELSE [state EXCEPT !.stream = Append(@, [op |-> command.op])]

RECURSIVE InterpretCommands(_, _, _, _)
InterpretCommands(state, commands, i, reversed) ==
    IF i > Len(commands) \/ state.panicked THEN state
    ELSE InterpretCommands(
             encode(track_resources([state EXCEPT !.index = i], commands, reversed),
                    commands[i]),
             commands, i + 1, reversed)

\* One timeline wait per source queue the tracker collected, at the collected stage.
RECURSIVE CollectWaits(_, _, _, _)
CollectWaits(semaphores, wait_queues, sources, queue) ==
    IF sources = <<>> THEN semaphores
    ELSE CollectWaits(wait_if_needed(sources[1], semaphores, queue, wait_queues[sources[1]]),
                      wait_queues, Tail(sources), queue)

\* The layouts the images are in once the commands of a native command buffer have run.
RECURSIVE ExecuteLayouts(_, _, _, _)
ExecuteLayouts(layouts, stream, i, active) ==
    IF i > Len(stream) THEN layouts
    ELSE LET entry == stream[i]
             Key(r) == <<r.h, r.elem, r.mip>>
         IN  CASE entry.op = "PipelineBarrier" ->
                      ExecuteLayouts(
                          [k \in DOMAIN layouts \cup
                                 {<<b.image, b.base_array_layer, b.base_mip_level>> :
                                    b \in entry.barrier.image_barriers} |->
                              IF \E b \in entry.barrier.image_barriers :
                                     k = <<b.image, b.base_array_layer, b.base_mip_level>>
                              THEN (CHOOSE b \in entry.barrier.image_barriers :
                                        k = <<b.image, b.base_array_layer, b.base_mip_level>>
                                   ).new_layout
                              ELSE layouts[k]],
                          stream, i + 1, active)
               [] entry.op = "BeginRenderPass" ->
                      ExecuteLayouts(layouts, stream, i + 1, entry.attachments)
               [] entry.op = "EndRenderPass" ->
                      ExecuteLayouts(
                          [k \in DOMAIN layouts \cup
                                 {Key(active[j].resource) : j \in DOMAIN active} |->
                              IF \E j \in DOMAIN active : k = Key(active[j].resource)
                              THEN active[CHOOSE j \in DOMAIN active :
                                              k = Key(active[j].resource)].final_layout
                              ELSE layouts[k]],
                          stream, i + 1, <<>>)
               [] OTHER -> ExecuteLayouts(layouts, stream, i + 1, active)

InitialTrackState(queue) ==
    [index |-> 0,
     pipeline_tracker |-> PipelineTracker_new(resource_state, queue, next_target_value(queue)),
     semaphores |-> EmptySemaphoreTracker,
     stream |-> <<>>,
     scopes |-> <<>>,
     signal_draw |-> {},
     panicked |-> FALSE]

\* The descriptor sets a command list binds.
SetsBoundBy(commands) ==
    UNION {{commands[i].sets[j] : j \in DOMAIN commands[i].sets} :
              i \in {k \in DOMAIN commands : commands[k].op = "BindDescriptorSets"}}

-----------------------------------------------------------------------------
(* The state after the backend, one surface with one acquired image, the buffers, the    *)
(* textures and the descriptor sets have been created.                                   *)

\* A thread outside every backend call.
Idle == [op |-> "idle", at |-> "idle"]

\* A lock nobody holds (ShardedLock, Mutex).
Unlocked == [writer |-> "none", readers |-> {}]

Locks ==
    {"resource_state", "allocator", "main", "transfer", "compute", "present", "samplers"}

\* The native objects of a surface: the swapchain with number n (0 is the null handle),
\* the view of its image i and the two semaphores created for image i.
SwapchainHandle(n) == <<"swapchain", n, 0>>

ViewHandle(n, i) == <<"view", n, i>>

SemaphoreHandles(n, i) ==
    [available |-> <<"available", n, i>>, presentable |-> <<"presentable", n, i>>]

\* Surface as create_surface leaves it, configured once.  `created` counts the
\* swapchains created for the surface, `destroy_calls` the destroy calls per native
\* object, `releases` the calls of Surface::release; `alive` is false once
\* destroy_surface has run.
Surface_new ==
    [images_acquired |-> 0, swapchain |-> 1, views_destroyed |-> 0, presenting |-> {},
     images |-> [i \in 1..InitialImageCount |-> ViewHandle(1, i)],
     semaphores |-> [i \in 1..InitialImageCount |-> SemaphoreHandles(1, i)],
     next_semaphore |-> 0, created |-> 1, destroy_calls |-> EmptyMap, releases |-> 0,
     alive |-> TRUE]

\* No Queue::submit closure is running.
NoCommandBuffer == [queue_ty |-> "Main", commands |-> <<>>, open |-> FALSE, attempt |-> <<>>]

\* #[derive(Default)] of the two caches; `created` counts the native objects created,
\* `destroyed` counts the destroy_framebuffer calls per framebuffer.
RenderPassCache_default == [passes |-> EmptyMap, created |-> 0]

FramebufferCache_default ==
    [pass_to_framebuffers |-> EmptyMap, image_to_pass |-> EmptyMap, created |-> 0,
     destroyed |-> EmptyMap]

NoUses == [todo |-> <<>>, done |-> <<>>, scope |-> EmptyScope]

InitBackend ==
    /\ queues = [q \in QueueTypes |-> VkQueue_new]
    /\ counter = [q \in QueueTypes |-> InitialSemaphoreValue]
    /\ binary = [s \in {SurfaceSemaphores(i).available : i \in SurfaceImages} \cup
                       {SurfaceSemaphores(i).presentable : i \in SurfaceImages} |->
                    s[1] = "available"]
    /\ gpu = [q \in QueueTypes |-> <<>>]
    /\ resource_state = EmptyGlobal
    /\ bound = [s \in DescriptorSets |-> << <<>> >>]
    /\ live = Buffers \cup GpuOnlyBuffers
    /\ channel = <<>>
    /\ to_destroy = <<>>
    /\ dropped = EmptyMap
    /\ destroyed = EmptyMap
    /\ used = [i \in SurfaceImages |-> FALSE]
    /\ panicked = FALSE
    /\ actual_layout = EmptyMap
    /\ hist = [calls |-> 0,
               submits |-> [q \in QueueTypes |-> 0],
               finished |-> [q \in QueueTypes |-> <<>>],
               set_bound |-> EmptyMap]
    /\ last = <<>>
    /\ last_update = <<>>
    /\ surfaces = [w \in Surfaces |-> Surface_new]
    /\ acquired = SurfaceImages
    /\ last_surface = <<>>
    /\ pc = [t \in Threads |-> Idle]
    /\ locks = [l \in Locks |-> Unlocked]
    /\ last_map = <<>>
    /\ live_sets = DescriptorSets
    /\ alive = TRUE
    /\ cb = NoCommandBuffer
    /\ last_job = <<>>
    /\ render_passes = RenderPassCache_default
    /\ framebuffers = FramebufferCache_default
    /\ cache_log = <<>>

Init == InitBackend /\ uses = NoUses

-----------------------------------------------------------------------------
(* Objects of the model and the command lists the frontend records.                      *)

MipCount == 1

\* Textures with a depth format, usable as depth-stencil attachments.
DepthTextures == {"d1"}

AspectFlags(texture) == IF texture \in DepthTextures THEN "DEPTH" ELSE "COLOR"

\* The one binding (binding 0, one element) of each descriptor set's layout.
SetLayout(set) ==
    IF set = "ds1" THEN [ty |-> "StorageBuffer", access_type |-> "ReadWrite", stage |-> "Compute"]
    ELSE [ty |-> "Texture", access_type |-> "Read", stage |-> "Fragment"]

CopyBufferToBuffer(src, dst) ==
    <<[op |-> "CopyBufferToBuffer", src |-> src, src_array_element |-> 0,
       dst |-> dst, dst_array_element |-> 0]>>

CopyBufferToTexture(buffer, texture) ==
    <<[op |-> "CopyBufferToTexture", buffer |-> buffer, buffer_array_element |-> 0,
       texture |-> texture, aspect_flags |-> AspectFlags(texture),
       texture_array_element |-> 0, texture_mip_level |-> 0]>>

CopyTextureToBuffer(buffer, texture) ==
    <<[op |-> "CopyTextureToBuffer", buffer |-> buffer, buffer_array_element |-> 0,
       texture |-> texture, aspect_flags |-> AspectFlags(texture),
       texture_array_element |-> 0, texture_mip_level |-> 0]>>

SurfaceAttachment(image, load_op) ==
    [source |-> "SurfaceImage", image |-> image, array_element |-> 0, mip_level |-> 0,
     load_op |-> load_op, store_op |-> "Store"]

TextureAttachment(texture, load_op) ==
    [source |-> "Texture", image |-> texture, array_element |-> 0, mip_level |-> 0,
     load_op |-> load_op, store_op |-> "Store"]

\* CommandBuffer::render_pass
RenderPass(attachment, pass) ==
    <<[op |-> "BeginRenderPass", color_attachments |-> <<attachment>>,
       depth_stencil_attachment |-> <<>>]>> \o pass \o <<[op |-> "EndRenderPass"]>>

DepthStencilAttachment(texture, load_op) ==
    [image |-> texture, aspect_flags |-> AspectFlags(texture), array_element |-> 0,
     mip_level |-> 0, load_op |-> load_op, store_op |-> "Store"]

\* CommandBuffer::render_pass with a depth-stencil attachment.
DepthRenderPass(attachment, depth, pass) ==
    <<[op |-> "BeginRenderPass", color_attachments |-> <<attachment>>,
       depth_stencil_attachment |-> <<depth>>]>> \o pass \o <<[op |-> "EndRenderPass"]>>

\* CommandBuffer::compute_pass
ComputePass(pass) == <<[op |-> "BeginComputePass"]>> \o pass \o <<[op |-> "EndComputePass"]>>

BindVertexBuffers(buffer) ==
    <<[op |-> "BindVertexBuffers", first |-> 0,
       binds |-> <<[buffer |-> buffer, array_element |-> 0]>>]>>

BindDescriptorSets(set) == <<[op |-> "BindDescriptorSets", sets |-> <<set>>, first |-> 0]>>

BindComputePipeline == <<[op |-> "BindComputePipeline", layouts |-> 1]>>

Draw == <<[op |-> "Draw"]>>

Dispatch == <<[op |-> "Dispatch"]>>

CopyBlocks ==
    {CopyBufferToBuffer("b2", "b1")}
    \cup {CopyBufferToTexture("b1", t) : t \in Textures}
    \cup {CopyTextureToBuffer("b1", t) : t \in Textures}

RenderBlocks ==
    {RenderPass(SurfaceAttachment(i, "Clear"), p) :
        i \in SurfaceImages,
        p \in {<<>>, BindVertexBuffers("b1") \o Draw, BindDescriptorSets("ds2") \o Draw}}
    \cup {RenderPass(TextureAttachment(t, "Clear"), <<>>) : t \in Textures}

ComputeBlocks == {ComputePass(BindComputePipeline \o BindDescriptorSets("ds1") \o Dispatch)}

\* The blocks a command buffer of each queue type accepts (the assertions of
\* CommandBuffer::render_pass, compute_pass and copy_*).
BlocksOf(queue) ==
    CASE queue = "Main" -> CopyBlocks \cup RenderBlocks \cup ComputeBlocks
      [] queue = "Transfer" -> CopyBlocks
      [] queue = "Compute" -> ComputeBlocks
      [] OTHER -> {}

RECURSIVE CommandLists(_, _)
CommandLists(blocks, n) ==
    IF n = 0 THEN {<<>>}
    ELSE {<<>>} \cup {b \o p : b \in blocks, p \in CommandLists(blocks, n - 1)}

\* The buffers a command list borrows from the frontend.
BuffersOf(commands) ==
    UNION {CASE commands[i].op = "CopyBufferToBuffer" -> {commands[i].src, commands[i].dst}
             [] commands[i].op \in {"CopyBufferToTexture", "CopyTextureToBuffer",
                                    "BindIndexBuffer"} -> {commands[i].buffer}
             [] commands[i].op = "BindVertexBuffers" ->
                    {commands[i].binds[j].buffer : j \in DOMAIN commands[i].binds}
             [] OTHER -> {} : i \in DOMAIN commands}

-----------------------------------------------------------------------------
(* Actions.                                                                              *)

\* "Perform garbage collection": gc is what the sweep keeps and destroys, sweep the
\* pending list after the intake of the channel.
CollectGarbage(gc, sweep) ==
    /\ to_destroy' = gc.to_destroy
    /\ channel' = <<>>
    /\ destroyed' =
           [b \in DOMAIN destroyed \cup
                   {g.buffer : g \in {x \in gc.destroyed : x.kind = "Buffer"}} |->
               IF b \in DOMAIN destroyed THEN destroyed[b]
               ELSE [current |-> CurrentValues,
                     strong |-> strong_count(b, [j \in DOMAIN sweep |-> sweep[j].garbage]),
                     at_drop |-> dropped[b],
                     pending_before |->
                         \E j \in DOMAIN to_destroy : to_destroy[j].garbage = GarbageBuffer(b)]]

\* The end of submit_commands: sub is what VkQueue::submit returned for the command
\* buffer alloc recorded by the interpretation that ended in state.
Submitted(queue, commands, alloc, state, sub) ==
    /\ panicked' = FALSE
    /\ queues' = [queues EXCEPT ![queue] = sub.queue]
    /\ gpu' = [gpu EXCEPT ![queue] = Append(@, [native |-> sub.native, started |-> FALSE])]
    /\ resource_state' = state.pipeline_tracker.global
    /\ used' = [i \in SurfaceImages |-> used[i] \/ i \in state.signal_draw]
    /\ actual_layout' = ExecuteLayouts(actual_layout, state.stream, 1, <<>>)
    /\ hist' = [hist EXCEPT
                   !.calls = @ + 1,
                   !.submits[queue] = @ + 1,
                   !.set_bound =
                       [s \in DOMAIN @ \cup SetsBoundBy(commands) |->
                           IF s \in SetsBoundBy(commands)
                           THEN QueueUsage(queue, next_target_value(queue))
                           ELSE @[s]]]
    /\ last' = <<[queue |-> queue,
                  commands |-> commands,
                  next_target_value |-> next_target_value(queue),
                  target_before |-> queues[queue].target_value,
                  registry_before |-> resource_state,
                  targets_before |-> [q \in QueueTypes |-> queues[q].target_value],
                  cur_value |-> counter[queue],
                  free_before |-> queues[queue].free,
                  free_allocated |-> alloc.queue.free,
                  command_buffer |-> alloc.command_buffer,
                  recycled |-> alloc.recycled,
                  scopes |-> state.scopes,
                  stream |-> state.stream,
                  wait_queues |-> state.pipeline_tracker.queues,
                  barrier_checks |-> BarrierChecks(commands),
                  bound_before |-> bound,
                  native |-> sub.native]>>

\* The semaphore tracker handed to VkQueue::submit: the surface semaphores the render
\* passes registered and one timeline wait per queue the pipeline tracker collected.
SubmitSemaphores(state, queue) ==
    CollectWaits(state.semaphores, state.pipeline_tracker.queues,
                 SetToSeq(DOMAIN state.pipeline_tracker.queues), queue)

\* submit_commands after the interpretation of the commands ended in state.  A panic
\* (a failed assertion of the usage scope) leaves the backend poisoned.
Interpreted(queue, commands, alloc, state) ==
    IF state.panicked
    THEN /\ panicked' = TRUE
         /\ UNCHANGED <<queues, gpu, resource_state, used, actual_layout, hist, last>>
    ELSE Submitted(queue, commands, alloc, state,
                   VkQueue_submit(alloc.queue, queue, alloc.command_buffer,
                                  SubmitSemaphores(state, queue)))

\* submit_commands(queue, commands).  All locks are taken on entry, so the call is one
\* step: garbage collection, command buffer allocation, interpretation of the commands,
\* the waits on other queues, VkQueue::submit.
SubmitCommands(queue, commands, reversed) ==
    /\ ~panicked
    /\ BuffersOf(commands) \subseteq live
    /\ CollectGarbage(cleanup(to_destroy, channel, CurrentValues, TargetValues),
                      Intake(to_destroy, channel, TargetValues))
    /\ Interpreted(queue, commands,
                   allocate_command_buffer(queues[queue], counter[queue]),
                   InterpretCommands(InitialTrackState(queue), commands, 1, reversed))
    /\ UNCHANGED <<counter, binary, bound, live, dropped, last_update>>

WaitSatisfied(wait) ==
    IF wait.semaphore[1] = "timeline" THEN counter[wait.semaphore[2]] >= wait.value
    ELSE binary[wait.semaphore]

\* The device starts a submission once all its semaphore waits are satisfied.  A binary
\* semaphore waited on is reset.
GpuStart(queue, i) ==
    /\ i \in DOMAIN gpu[queue]
    /\ ~gpu[queue][i].started
    /\ \A w \in gpu[queue][i].native.waits : WaitSatisfied(w)
    /\ gpu' = [gpu EXCEPT ![queue][i].started = TRUE]
    /\ binary' = [s \in DOMAIN binary |->
                     binary[s] /\ ~(\E w \in gpu[queue][i].native.waits : w.semaphore = s)]
    /\ UNCHANGED <<queues, counter, resource_state, bound, live, channel, to_destroy, dropped,
                   destroyed, used, panicked, actual_layout, hist, last, last_update>>

RECURSIVE SignalTimelines(_, _)
SignalTimelines(values, signals) ==
    IF signals = <<>> THEN values
    ELSE SignalTimelines(
             IF signals[1].semaphore[1] = "timeline"
             THEN [values EXCEPT ![signals[1].semaphore[2]] = signals[1].value]
             ELSE values,
             Tail(signals))

RemoveAt(s, i) == [j \in 1..(Len(s) - 1) |-> IF j < i THEN s[j] ELSE s[j + 1]]

\* The device finishes a started submission: every semaphore it signals takes its value.
GpuFinish(queue, i) ==
    /\ i \in DOMAIN gpu[queue]
    /\ gpu[queue][i].started
    /\ counter' = SignalTimelines(counter, gpu[queue][i].native.signals)
    /\ binary' = [s \in DOMAIN binary |->
                     binary[s] \/ \E k \in DOMAIN gpu[queue][i].native.signals :
                                      gpu[queue][i].native.signals[k].semaphore = s]
    /\ gpu' = [gpu EXCEPT ![queue] = RemoveAt(@, i)]
    /\ hist' = [hist EXCEPT !.finished[queue] =
                   Append(@, gpu[queue][i].native.signals[1].value)]
    /\ UNCHANGED <<queues, resource_state, bound, live, channel, to_destroy, dropped,
                   destroyed, used, panicked, actual_layout, last, last_update>>

\* impl Drop for Buffer: the garbage record is sent to the collector's channel.
DropBuffer(buffer) ==
    /\ ~panicked
    /\ buffer \in live
    /\ live' = live \ {buffer}
    /\ channel' = Append(channel, GarbageBuffer(buffer))
    /\ dropped' = Insert(dropped, buffer, TargetValues)
    /\ UNCHANGED <<queues, counter, binary, gpu, resource_state, bound, to_destroy, destroyed,
                   used, panicked, actual_layout, hist, last, last_update>>

\* wait_on(job, None) returns once the job's queue has reached the job's target value.
JobComplete(current_value, target_value) == current_value >= target_value

BindingAccess(layout) ==
    CASE layout.ty = "Texture" -> {"SHADER_READ"}
      [] layout.ty = "UniformBuffer" -> {"UNIFORM_READ"}
      [] layout.ty = "StorageBuffer" /\ layout.access_type = "Read" -> {"SHADER_READ"}
      [] OTHER -> {"SHADER_READ", "SHADER_WRITE"}

BindingStage(layout) ==
    CASE layout.stage = "Vertex" -> {"VERTEX_SHADER"}
      [] layout.stage = "Fragment" -> {"FRAGMENT_SHADER"}
      [] layout.stage = "Compute" -> {"COMPUTE_SHADER"}
      [] OTHER -> {"ALL_GRAPHICS"}

BoundValue(layout, resource) ==
    IF layout.ty = "Texture"
    THEN [kind |-> "Texture", image |-> resource, aspect_mask |-> AspectFlags(resource),
          mip_count |-> MipCount, array_element |-> 0]
    ELSE [kind |-> layout.ty, buffer |-> resource, array_element |-> 0]

\* DescriptorSet::update with one update of binding 0, element 0.  The call holds the
\* registry lock while it waits, so it is one step, taken when the wait is over.
\* "Deal with the old value": the image view of a texture binding taken out of the set is
\* destroyed on the spot.
DestroyedView(old) ==
    IF old # <<>> /\ old[1].value.kind = "Texture" THEN <<old[1].value.image>> ELSE <<>>

UpdateDescriptorSets(set, resource) ==
    /\ ~panicked
    /\ resource \in (IF SetLayout(set).ty = "Texture" THEN Textures ELSE live)
    /\ LET reg == register_set(resource_state, set, <<>>)
       IN  /\ reg.old # <<>> =>
                  JobComplete(counter[reg.old[1].queue], reg.old[1].timeline_value)
           /\ resource_state' = reg.global
           /\ bound' = [bound EXCEPT ![set][1] =
                           <<[value |-> BoundValue(SetLayout(set), resource),
                              stage |-> BindingStage(SetLayout(set)),
                              access |-> BindingAccess(SetLayout(set))]>>]
           /\ last_update' = <<[set |-> set,
                                waited |-> reg.old,
                                counters |-> counter,
                                bound_in |-> Lookup(hist.set_bound, set),
                                destroyed_view |-> DestroyedView(bound[set][1])]>>
    /\ UNCHANGED <<queues, counter, binary, gpu, live, channel, to_destroy, dropped,
                   destroyed, used, panicked, actual_layout, hist, last>>

\* map_memory(buffer, 0): the registry entry is taken and its queue waited for.
MapMemory(buffer) ==
    /\ ~panicked
    /\ buffer \in live
    /\ LET reg == set_buffer(resource_state, buffer, 0, <<>>)
       IN  /\ reg.old # <<>> =>
                  counter[reg.old[1].queue] >= reg.old[1].timeline_value
           /\ resource_state' = reg.global
    /\ UNCHANGED <<queues, counter, binary, gpu, bound, live, channel, to_destroy, dropped,
                   destroyed, used, panicked, actual_layout, hist, last, last_update>>

-----------------------------------------------------------------------------
(* Specifications.                                                                       *)

\* The whole backend: the queues, the device, the collector, descriptor updates and
\* maps, each queue with the command lists of QueueCommandLists.
QueueCommandLists(queue) ==
    CASE queue = "Main" -> {CopyBufferToBuffer("b2", "b1")}
      [] queue = "Transfer" -> {CopyBufferToBuffer("b1", "b2")}
      [] queue = "Compute" -> ComputeBlocks
      [] OTHER -> {<<>>}

Next ==
    \/ /\ hist.calls < MaxSubmits
       /\ \E queue \in QueueTypes : \E commands \in QueueCommandLists(queue) :
              \E reversed \in BOOLEAN : SubmitCommands(queue, commands, reversed)
       /\ UNCHANGED partVars
    \/ \E queue \in QueueTypes : \E i \in DOMAIN gpu[queue] :
           GpuStart(queue, i) /\ UNCHANGED partVars
    \/ \E queue \in QueueTypes : \E i \in DOMAIN gpu[queue] :
           GpuFinish(queue, i) /\ UNCHANGED partVars
    \/ \E buffer \in Buffers : DropBuffer(buffer) /\ UNCHANGED partVars
    \/ \E set \in {"ds1"} : \E resource \in Buffers :
           UpdateDescriptorSets(set, resource) /\ UNCHANGED partVars
    \/ \E buffer \in Buffers : MapMemory(buffer) /\ UNCHANGED partVars

Spec == Init /\ [][Next]_vars

\* Two queues under up to MaxQueueSubmits submissions, so that command buffers are
\* recycled while others are still pending.
NextQueue ==
    \/ /\ hist.calls < MaxQueueSubmits
       /\ \E queue \in {"Main", "Transfer"} :
              \E commands \in {<<>>, CopyBufferToBuffer("b1", "b2")} :
                  \E reversed \in BOOLEAN : SubmitCommands(queue, commands, reversed)
       /\ UNCHANGED partVars
    \/ \E queue \in QueueTypes : \E i \in DOMAIN gpu[queue] :
           GpuStart(queue, i) /\ UNCHANGED partVars
    \/ \E queue \in QueueTypes : \E i \in DOMAIN gpu[queue] :
           GpuFinish(queue, i) /\ UNCHANGED partVars
    \/ \E buffer \in {"b1"} : MapMemory(buffer) /\ UNCHANGED partVars

SpecQueue == Init /\ [][NextQueue]_vars

\* The usage tracker under every command list of up to MaxBlocks blocks, the device idle.
NextTrack ==
    \/ /\ hist.calls < MaxTrackSubmits
       /\ \E queue \in QueueTypes : \E commands \in CommandLists(BlocksOf(queue), MaxBlocks) :
              \E reversed \in BOOLEAN : SubmitCommands(queue, commands, reversed)
       /\ UNCHANGED partVars
    \/ \E set \in DescriptorSets : \E resource \in {"b1"} \cup Textures :
           UpdateDescriptorSets(set, resource) /\ UNCHANGED partVars

SpecTrack == Init /\ [][NextTrack]_vars

\* Hand-offs between queues: resources written on Transfer or Compute and then used by
\* render passes with a depth-stencil attachment on Main.
HandoffCommandLists(queue) ==
    CASE queue = "Main" ->
             {DepthRenderPass(SurfaceAttachment("s1", "Clear"),
                              DepthStencilAttachment("d1", "Clear"), p) :
                 p \in {<<>>, BindVertexBuffers("b1") \o Draw}}
             \cup {CopyBufferToBuffer("b2", "b1")}
      [] queue = "Transfer" -> {CopyBufferToTexture("b1", "d1"), CopyBufferToBuffer("b2", "b1")}
      [] queue = "Compute" -> ComputeBlocks
      [] OTHER -> {}

NextHandoff ==
    \/ /\ hist.calls < MaxHandoffSubmits
       /\ \E queue \in QueueTypes : \E commands \in HandoffCommandLists(queue) :
              \E reversed \in BOOLEAN : SubmitCommands(queue, commands, reversed)
       /\ UNCHANGED partVars
    \/ \E queue \in QueueTypes : \E i \in DOMAIN gpu[queue] :
           GpuStart(queue, i) /\ UNCHANGED partVars
    \/ \E queue \in QueueTypes : \E i \in DOMAIN gpu[queue] :
           GpuFinish(queue, i) /\ UNCHANGED partVars

SpecHandoff == Init /\ [][NextHandoff]_vars

-----------------------------------------------------------------------------
(* api/src/command_buffer.rs: recording.  A recording call returns the command list and *)
(* whether its assertion failed.                                                         *)

Recorded(commands) == [commands |-> commands, panicked |-> FALSE]

AssertFailed(commands) == [commands |-> commands, panicked |-> TRUE]

\* A render pass recorded without its EndRenderPass.
render_pass_unclosed(queue_ty, commands, descriptor, pass) ==
    IF queue_ty # "Main" THEN AssertFailed(commands)
    ELSE Recorded(commands \o SubSeq(RenderPass(descriptor, pass), 1, Len(pass) + 1))

render_pass(queue_ty, commands, descriptor, pass) ==
    IF queue_ty # "Main" THEN AssertFailed(commands)
    ELSE Recorded(commands \o RenderPass(descriptor, pass))

compute_pass(queue_ty, commands, pass) ==
    IF ~(queue_ty = "Main" \/ queue_ty = "Compute") THEN AssertFailed(commands)
    ELSE Recorded(commands \o ComputePass(pass))

\* A copy recorded without the assertion on the queue type.
copy_buffer_to_buffer_unchecked(queue_ty, commands, src, dst) ==
    Recorded(commands \o CopyBufferToBuffer(src, dst))

copy_buffer_to_buffer(queue_ty, commands, src, dst) ==
    IF ~(queue_ty = "Main" \/ queue_ty = "Transfer") THEN AssertFailed(commands)
    ELSE Recorded(commands \o CopyBufferToBuffer(src, dst))

copy_buffer_to_texture(queue_ty, commands, texture, buffer) ==
    IF ~(queue_ty = "Main" \/ queue_ty = "Transfer") THEN AssertFailed(commands)
    ELSE Recorded(commands \o CopyBufferToTexture(buffer, texture))

copy_texture_to_buffer(queue_ty, commands, buffer, texture) ==
    IF ~(queue_ty = "Main" \/ queue_ty = "Transfer") THEN AssertFailed(commands)
    ELSE Recorded(commands \o CopyTextureToBuffer(buffer, texture))

\* The command buffer Queue::submit hands to the closure: it records for the queue's type.
CommandBuffer_new(ty) == [queue_ty |-> ty, commands |-> <<>>, open |-> TRUE, attempt |-> <<>>]

\* Queue::submit up to the call of the closure.
BeginSubmit(ty) ==
    /\ ~panicked
    /\ ~cb.open
    /\ hist.calls < MaxRecordSubmits
    /\ cb' = CommandBuffer_new(ty)
    /\ UNCHANGED <<backendVars, scopeVars, surfaceVars, threadVars, shutdownVars, jobVars,
                   cacheVars>>

\* One recording call of the closure with result r.  A failed assertion unwinds out of
\* Queue::submit: nothing is submitted.
Record(kind, r) ==
    /\ cb.open
    /\ Len(cb.attempt) < MaxRecorded
    /\ cb' = [queue_ty |-> cb.queue_ty,
              commands |-> r.commands,
              open |-> ~r.panicked,
              attempt |-> Append(cb.attempt, [kind |-> kind, before |-> cb.commands,
                                              after |-> r.commands,
                                              panicked |-> r.panicked])]
    /\ UNCHANGED <<backendVars, scopeVars, surfaceVars, threadVars, shutdownVars, jobVars,
                   cacheVars>>

\* Queue::submit after the closure returned: submit_commands(self.ty, .., cb.commands).
SubmitRecorded(reversed) ==
    /\ cb.open
    /\ SubmitCommands(cb.queue_ty, cb.commands, reversed)
    /\ cb' = [cb EXCEPT !.open = FALSE]
    /\ UNCHANGED <<scopeVars, surfaceVars, threadVars, shutdownVars, jobVars, cacheVars>>

NextRecord ==
    \/ \E ty \in QueueTypes : BeginSubmit(ty)
    \/ \E pass \in {<<>>, BindVertexBuffers("b1") \o Draw} :
           Record("render_pass",
                  render_pass(cb.queue_ty, cb.commands, SurfaceAttachment("s1", "Clear"), pass))
    \/ \E pass \in {BindComputePipeline \o BindDescriptorSets("ds1") \o Dispatch} :
           Record("compute_pass", compute_pass(cb.queue_ty, cb.commands, pass))
    \/ \E src \in {"b2"} : \E dst \in {"b1"} :
           Record("copy_buffer_to_buffer",
                  copy_buffer_to_buffer(cb.queue_ty, cb.commands, src, dst))
    \/ \E texture \in Textures : \E buffer \in {"b1"} :
           Record("copy_buffer_to_texture",
                  copy_buffer_to_texture(cb.queue_ty, cb.commands, texture, buffer))
    \/ \E texture \in Textures : \E buffer \in {"b1"} :
           Record("copy_texture_to_buffer",
                  copy_texture_to_buffer(cb.queue_ty, cb.commands, buffer, texture))
    \/ \E reversed \in BOOLEAN : SubmitRecorded(reversed)

SpecRecord == Init /\ [][NextRecord]_vars

-----------------------------------------------------------------------------
(* Jobs: Job::wait_on and Job::poll_status on the jobs submit_commands returned.         *)

\* The Job submit_commands returns.
Job(ty, target_value) == [ty |-> ty, target_value |-> target_value]

\* The jobs handed out so far on the queues of the job specification.
JobsOf(ty) == {Job(ty, v) : v \in 1..queues[ty].target_value}

\* lib.rs 584-590: the body is todo!(), which panics.
wait_on(job, timeout) == "panic"

\* lib.rs 592-594: the body is todo!(), which panics.
poll_status(job) == "panic"

\* A call of wait_on or poll_status that ends with `result`.
JobCall(op, job, timeout, result) ==
    /\ ~panicked
    /\ last_job' = <<[op |-> op, job |-> job, timeout |-> timeout,
                      counter |-> counter[job.ty], target |-> queues[job.ty].target_value,
                      result |-> result]>>
    /\ panicked' = (result = "panic")
    /\ UNCHANGED <<queues, counter, binary, gpu, resource_state, bound, live, channel,
                   to_destroy, dropped, destroyed, used, actual_layout, hist, last,
                   last_update>>
    /\ UNCHANGED <<scopeVars, surfaceVars, threadVars, shutdownVars, recordVars, cacheVars>>

NextJobs ==
    \/ /\ hist.calls < MaxJobSubmits
       /\ \E queue \in {"Main", "Transfer"} :
              \E commands \in {<<>>, CopyBufferToBuffer("b1", "b2")} :
                  SubmitCommands(queue, commands, FALSE)
       /\ UNCHANGED partVars
    \/ \E queue \in QueueTypes : \E i \in DOMAIN gpu[queue] :
           GpuStart(queue, i) /\ UNCHANGED partVars
    \/ \E queue \in QueueTypes : \E i \in DOMAIN gpu[queue] :
           GpuFinish(queue, i) /\ UNCHANGED partVars
    \/ \E ty \in {"Main", "Transfer"} : \E job \in JobsOf(ty) :
           \E timeout \in {<<>>, <<0>>, <<1>>} :
               JobCall("wait_on", job, timeout, wait_on(job, timeout))
    \/ \E ty \in {"Main", "Transfer"} : \E job \in JobsOf(ty) :
           JobCall("poll_status", job, <<>>, poll_status(job))

SpecJobs == Init /\ [][NextJobs]_vars

-----------------------------------------------------------------------------
(* render_pass.rs: the render pass cache and the framebuffer cache.                      *)

Range(s) == {s[i] : i \in DOMAIN s}

\* Surface images of two surfaces with different formats, and the depth texture.
ImageFormat(image) ==
    CASE image = "s1" -> "B8G8R8A8_SRGB"
      [] image = "s2" -> "R8G8B8A8_UNORM"
      [] OTHER -> "D32_SFLOAT"

\* util/mod.rs: LoadOp::Clear carries a colour ("Clear", "ClearWhite"), which the native
\* load op drops.
to_vk_load_op(load_op) ==
    CASE load_op = "DontCare" -> "DONT_CARE"
      [] load_op = "Load" -> "LOAD"
      [] OTHER -> "CLEAR"

to_vk_store_op(store_op) == IF store_op = "DontCare" THEN "DONT_CARE" ELSE "STORE"

VkAttachment(attachment) ==
    [image_format |-> ImageFormat(attachment.image),
     load_op |-> to_vk_load_op(attachment.load_op),
     store_op |-> to_vk_store_op(attachment.store_op)]

\* VkRenderPassDescriptor::from_descriptor: the colour attachments are pushed, the
\* depth-stencil attachment keeps its default.
from_descriptor(descriptor) ==
    [color_attachments |->
         [i \in DOMAIN descriptor.color_attachments |->
             VkAttachment(descriptor.color_attachments[i])],
     depth_stencil_attachment |-> <<>>]

\* RenderPassCache::get: entry(descriptor).or_insert_with(create_native_pass).
RenderPassCache_get(cache, descriptor) ==
    IF from_descriptor(descriptor) \in DOMAIN cache.passes
    THEN [cache |-> cache, pass |-> cache.passes[from_descriptor(descriptor)]]
    ELSE [cache |-> [passes |-> Insert(cache.passes, from_descriptor(descriptor),
                                       cache.created + 1),
                     created |-> cache.created + 1],
          pass |-> cache.created + 1]

\* Framebuffers::get: the framebuffer of the ordered image list, created when missing.
\* The extent is not part of the key.
Framebuffers_get(fbs, images, fresh) ==
    IF images \in DOMAIN fbs.framebuffers
    THEN [fbs |-> fbs, framebuffer |-> fbs.framebuffers[images], created |-> 0]
    ELSE [fbs |-> [fbs EXCEPT !.framebuffers = Insert(@, images, fresh)],
          framebuffer |-> fresh, created |-> 1]

\* A reverse index that takes only the first image of the list.
AssociateFirstImage(image_to_pass, images, native_pass) ==
    IF images = <<>> THEN image_to_pass
    ELSE Insert(image_to_pass, images[1],
                UnwrapOrDefault(Lookup(image_to_pass, images[1]), {}) \cup {native_pass})

\* FramebufferCache::get, "Associate images to pass".
AssociateImages(image_to_pass, images, native_pass) ==
    [image \in DOMAIN image_to_pass \cup Range(images) |->
        IF image \in Range(images)
        THEN UnwrapOrDefault(Lookup(image_to_pass, image), {}) \cup {native_pass}
        ELSE image_to_pass[image]]

FramebuffersOf(cache, native_pass) ==
    UnwrapOrDefault(Lookup(cache.pass_to_framebuffers, native_pass),
                    [pass |-> native_pass, framebuffers |-> EmptyMap])

\* FramebufferCache::get
FramebufferCache_get(cache, native_pass, images) ==
    [cache |->
         [pass_to_framebuffers |->
              Insert(cache.pass_to_framebuffers, native_pass,
                     Framebuffers_get(FramebuffersOf(cache, native_pass), images,
                                      cache.created + 1).fbs),
          image_to_pass |-> AssociateImages(cache.image_to_pass, images, native_pass),
          created |-> cache.created
                      + Framebuffers_get(FramebuffersOf(cache, native_pass), images,
                                         cache.created + 1).created,
          destroyed |-> cache.destroyed],
     framebuffer |-> Framebuffers_get(FramebuffersOf(cache, native_pass), images,
                                      cache.created + 1).framebuffer]

\* The keys of a pass that contain the image.
KeysWith(fbs, image) == {key \in DOMAIN fbs.framebuffers : image \in Range(key)}

\* Framebuffers::view_destroyed: every framebuffer whose key contains the image is
\* destroyed and removed.
Framebuffers_view_destroyed(fbs, image) ==
    [fbs EXCEPT !.framebuffers =
        [key \in (DOMAIN @) \ KeysWith(fbs, image) |-> @[key]]]

\* The framebuffers view_destroyed hands to destroy_framebuffer for the passes given.
DestroyedWith(cache, passes, image) ==
    {cache.pass_to_framebuffers[p].framebuffers[key] :
        <<p, key>> \in UNION {{<<q, k>> : k \in KeysWith(cache.pass_to_framebuffers[q], image)} :
                                 q \in passes \cap DOMAIN cache.pass_to_framebuffers}}

\* FramebufferCache::view_destroyed: the passes of the reverse index are told.
FramebufferCache_view_destroyed(cache, image) ==
    IF image \notin DOMAIN cache.image_to_pass THEN cache
    ELSE [cache EXCEPT
            !.pass_to_framebuffers =
                [p \in DOMAIN @ |->
                    IF p \in cache.image_to_pass[image]
                    THEN Framebuffers_view_destroyed(@[p], image)
                    ELSE @[p]],
            !.destroyed =
                [fb \in DOMAIN @ \cup DestroyedWith(cache, cache.image_to_pass[image], image) |->
                    UnwrapOrDefault(Lookup(@, fb), 0)
                    + (IF fb \in DestroyedWith(cache, cache.image_to_pass[image], image)
                       THEN 1 ELSE 0)]]

RenderPassGet(descriptor) ==
    /\ Len(cache_log) < MaxPassGets
    /\ render_passes' = RenderPassCache_get(render_passes, descriptor).cache
    /\ cache_log' = Append(cache_log,
                           [descriptor |-> descriptor,
                            pass |-> RenderPassCache_get(render_passes, descriptor).pass])
    /\ UNCHANGED <<backendVars, scopeVars, recordVars, jobVars, framebuffers, surfaceVars,
                   threadVars, shutdownVars>>

FramebufferGet(native_pass, images) ==
    /\ Len(cache_log) < MaxFramebufferCalls
    /\ framebuffers' = FramebufferCache_get(framebuffers, native_pass, images).cache
    /\ cache_log' =
           Append(cache_log,
                  [op |-> "get", pass |-> native_pass, images |-> images,
                   framebuffer |->
                       FramebufferCache_get(framebuffers, native_pass, images).framebuffer])
    /\ UNCHANGED <<backendVars, scopeVars, recordVars, jobVars, render_passes, surfaceVars,
                   threadVars, shutdownVars>>

ViewDestroyed(image) ==
    /\ Len(cache_log) < MaxFramebufferCalls
    /\ framebuffers' = FramebufferCache_view_destroyed(framebuffers, image)
    /\ cache_log' = Append(cache_log,
                           [op |-> "view_destroyed", pass |-> 0, images |-> <<image>>,
                            framebuffer |-> 0])
    /\ UNCHANGED <<backendVars, scopeVars, recordVars, jobVars, render_passes, surfaceVars,
                   threadVars, shutdownVars>>

\* Descriptors with one colour attachment and, possibly, a depth-stencil attachment.
CacheDescriptors ==
    {[color_attachments |-> <<SurfaceAttachment(image, load_op)>>,
      depth_stencil_attachment |-> depth] :
        image \in {"s1", "s2"}, load_op \in {"Load", "Clear", "ClearWhite"},
        depth \in {<<>>} \cup {<<DepthStencilAttachment("d1", op)>> : op \in {"Load", "Clear"}}}

ImageViews == {"v1", "v2"}

ViewLists == {<<"v1">>, <<"v2">>, <<"v1", "v2">>, <<"v2", "v1">>}

NextPasses == \E descriptor \in CacheDescriptors : RenderPassGet(descriptor)

SpecPasses == Init /\ [][NextPasses]_vars

NextFramebuffers ==
    \/ \E native_pass \in 1..2 : \E images \in ViewLists : FramebufferGet(native_pass, images)
    \/ \E image \in ImageViews : ViewDestroyed(image)

SpecFramebuffers == Init /\ [][NextFramebuffers]_vars

-----------------------------------------------------------------------------
(* Hazards: command lists of the main queue that read one buffer at the vertex input     *)
(* and at the transfer stage and then write it.                                          *)

HazardBlocks ==
    {RenderPass(SurfaceAttachment("s1", "Clear"), BindVertexBuffers("b1") \o Draw),
     CopyBufferToTexture("b1", "t1"),
     CopyTextureToBuffer("b1", "t1"),
     CopyBufferToBuffer("b2", "b1")}

NextHazard ==
    /\ hist.calls < MaxHazardSubmits
    /\ \E commands \in CommandLists(HazardBlocks, MaxHazardBlocks) :
           \E reversed \in BOOLEAN : SubmitCommands("Main", commands, reversed)
    /\ UNCHANGED partVars

SpecHazard == Init /\ [][NextHazard]_vars

-----------------------------------------------------------------------------
(* A fair GPU: submissions on Main, Transfer and Compute that share a buffer, and a      *)
(* device that starts every submission whose waits are satisfied and finishes every      *)
(* submission it started.                                                                *)

FairCommandLists(queue) ==
    IF queue = "Compute" THEN ComputeBlocks ELSE {CopyBufferToBuffer("b2", "b1")}

GpuStep ==
    \E queue \in QueueTypes : \E i \in DOMAIN gpu[queue] :
        (GpuStart(queue, i) \/ GpuFinish(queue, i)) /\ UNCHANGED partVars

NextFair ==
    \/ /\ hist.calls < MaxFairSubmits
       /\ \E queue \in {"Main", "Transfer", "Compute"} :
              \E commands \in FairCommandLists(queue) :
                  SubmitCommands(queue, commands, FALSE)
       /\ UNCHANGED partVars
    \/ UpdateDescriptorSets("ds1", "b1") /\ UNCHANGED partVars
    \/ \E queue \in QueueTypes : \E i \in DOMAIN gpu[queue] :
           GpuStart(queue, i) /\ UNCHANGED partVars
    \/ \E queue \in QueueTypes : \E i \in DOMAIN gpu[queue] :
           GpuFinish(queue, i) /\ UNCHANGED partVars

SpecFair == Init /\ [][NextFair]_vars /\ WF_vars(GpuStep)

-----------------------------------------------------------------------------
(* Compute passes: every sequence of up to MaxPassCommands calls of bind_pipeline,       *)
(* bind_sets and dispatch, on descriptor sets bound to a buffer or a texture.            *)

\* api/src/compute_pass.rs: the command each recording call of a pass pushes.
ComputePassCommands ==
    {BindComputePipeline, BindDescriptorSets("ds1"), BindDescriptorSets("ds2"), Dispatch}

RECURSIVE PassBodies(_, _)
PassBodies(menu, n) ==
    IF n = 0 THEN {<<>>}
    ELSE {<<>>} \cup {c \o p : c \in menu, p \in PassBodies(menu, n - 1)}

NextCompute ==
    \/ /\ hist.calls < MaxComputeSubmits
       /\ \E pass \in PassBodies(ComputePassCommands, MaxPassCommands) :
              \E reversed \in BOOLEAN : SubmitCommands("Compute", ComputePass(pass), reversed)
       /\ UNCHANGED partVars
    \/ \E set \in DescriptorSets : \E resource \in {"b1"} \cup Textures :
           UpdateDescriptorSets(set, resource) /\ UNCHANGED partVars

SpecCompute == Init /\ [][NextCompute]_vars

-----------------------------------------------------------------------------
(* Threads: the backend calls as sequences of lock acquisitions and steps. *)

MemoryUsage(buffer) == IF buffer \in GpuOnlyBuffers THEN "GpuOnly" ELSE "CpuToGpu"

Req(lock, mode) == [lock |-> lock, mode |-> mode]

\* Every operation on the registry takes its lock for writing.
RegistryAccessShared(op) == "read"

RegistryAccess(op) == "write"

SubmitLocksReversed ==
    <<Req("present", "write"), Req("compute", "write"), Req("transfer", "write"),
      Req("main", "write"), Req("allocator", "lock"),
      Req("resource_state", RegistryAccess("submit_commands"))>>

SubmitLocks ==
    <<Req("resource_state", RegistryAccess("submit_commands")), Req("allocator", "lock"),
      Req("main", "write"), Req("transfer", "write"), Req("compute", "write"),
      Req("present", "write")>>

MapMemoryLocks == <<Req("resource_state", RegistryAccess("map_memory"))>>

UpdateLocks ==
    <<Req("resource_state", RegistryAccess("update_descriptor_sets")),
      Req("samplers", "lock")>>

CreateBufferLocks == <<Req("allocator", "lock")>>

OpLocks(op) ==
    CASE op = "submit_commands" -> SubmitLocks
      [] op = "map_memory" -> MapMemoryLocks
      [] op = "update_descriptor_sets" -> UpdateLocks
      [] op = "create_buffer" -> CreateBufferLocks

\* The step an operation makes once it holds its locks.
FirstStep(op) ==
    CASE op = "submit_commands" -> "collect"
      [] op = "map_memory" -> "take"
      [] op = "update_descriptor_sets" -> "update"
      [] op = "create_buffer" -> "create"

QueueLock(queue) ==
    CASE queue = "Main" -> "main"
      [] queue = "Transfer" -> "transfer"
      [] queue = "Compute" -> "compute"
      [] queue = "Present" -> "present"

\* ShardedLock / Mutex: readers share, a writer excludes everybody.
Available(lk, lock, mode) ==
    IF mode = "read" THEN lk[lock].writer = "none" ELSE lk[lock] = Unlocked

Acquired(lk, lock, mode, t) ==
    [lk EXCEPT ![lock] = IF mode = "read"
                         THEN [@ EXCEPT !.readers = @ \cup {t}]
                         ELSE [@ EXCEPT !.writer = t]]

\* The guards of a thread are dropped when its call returns or unwinds.
Released(lk, t) ==
    [l \in Locks |-> [writer |-> IF lk[l].writer = t THEN "none" ELSE lk[l].writer,
                      readers |-> lk[l].readers \ {t}]]

HeldBy(t) == { l \in Locks : locks[l].writer = t \/ t \in locks[l].readers }

ThreadCalls ==
    {[op |-> "submit_commands", at |-> "lock", n |-> 1, queue |-> "Transfer",
      commands |-> CopyBufferToBuffer("b1", "b2")],
     [op |-> "update_descriptor_sets", at |-> "lock", n |-> 1, set |-> "ds1",
      resource |-> "b1"],
     [op |-> "create_buffer", at |-> "lock", n |-> 1]}
    \cup { [op |-> "map_memory", at |-> "lock", n |-> 1, buffer |-> buffer] :
             buffer \in {"b1"} \cup GpuOnlyBuffers }

\* The surface images a command list borrows from the frontend.
SurfaceImagesIn(commands) ==
    UNION { IF commands[i].op = "BeginRenderPass"
            THEN SurfaceImagesOf(commands[i].color_attachments)
            ELSE {} : i \in DOMAIN commands }

Call(t, call) ==
    /\ ~panicked
    /\ pc[t] = Idle
    /\ call.op = "submit_commands" =>
           /\ hist.calls < MaxThreadSubmits
           /\ SurfaceImagesIn(call.commands) \subseteq acquired
    /\ pc' = [pc EXCEPT ![t] = call]
    /\ UNCHANGED <<backendVars, scopeVars, objectVars, surfaceVars, locks, last_map, shutdownVars>>

\* The next lock of the operation; the thread stays here while the lock is not available.
Lock(t) ==
    /\ ~panicked
    /\ pc[t].at = "lock"
    /\ LET req == OpLocks(pc[t].op)[pc[t].n]
       IN  /\ Available(locks, req.lock, req.mode)
           /\ locks' = Acquired(locks, req.lock, req.mode, t)
    /\ pc' = [pc EXCEPT ![t] = IF pc[t].n = Len(OpLocks(pc[t].op))
                               THEN [pc[t] EXCEPT !.at = FirstStep(pc[t].op)]
                               ELSE [pc[t] EXCEPT !.n = pc[t].n + 1]]
    /\ UNCHANGED <<backendVars, scopeVars, objectVars, surfaceVars, last_map, shutdownVars>>

\* submit_commands, lib.rs 248-273: the sweep, then the next target value.
SubmitCollect(t) ==
    /\ ~panicked
    /\ pc[t].at = "collect"
    /\ CollectGarbage(cleanup(to_destroy, channel, CurrentValues, TargetValues),
                      Intake(to_destroy, channel, TargetValues))
    /\ pc' = [pc EXCEPT ![t] =
                 [op |-> "submit_commands", at |-> "record", queue |-> @.queue,
                  commands |-> @.commands,
                  next_target_value |-> next_target_value(@.queue),
                  resc_state |-> resource_state]]
    /\ UNCHANGED <<queues, counter, binary, gpu, resource_state, bound, live, dropped, used,
                   panicked, actual_layout, hist, last, last_update>>
    /\ UNCHANGED <<scopeVars, objectVars, surfaceVars, locks, last_map, shutdownVars>>

\* submit_commands from the command buffer to queue.submit; the guards drop at return.
SubmitRecord(t) ==
    /\ ~panicked
    /\ pc[t].at = "record"
    /\ Interpreted(pc[t].queue, pc[t].commands,
                   allocate_command_buffer(queues[pc[t].queue], counter[pc[t].queue]),
                   InterpretCommands(InitialTrackState(pc[t].queue), pc[t].commands, 1,
                                     FALSE))
    /\ pc' = [pc EXCEPT ![t] = Idle]
    /\ locks' = Released(locks, t)
    /\ UNCHANGED <<counter, binary, bound, live, channel, to_destroy, dropped, destroyed,
                   last_update>>
    /\ UNCHANGED <<scopeVars, objectVars, surfaceVars, last_map, shutdownVars>>

\* map_memory, lib.rs 696: the previous usage of the buffer is taken out of the registry.
MapTake(t) ==
    /\ ~panicked
    /\ pc[t].at = "take"
    /\ LET reg == set_buffer(resource_state, pc[t].buffer, 0, <<>>)
       IN  /\ resource_state' = reg.global
           /\ pc' = [pc EXCEPT ![t] =
                        [op |-> "map_memory", buffer |-> @.buffer, old |-> reg.old,
                         branch |-> "none",
                         at |-> IF reg.old = <<>> THEN "ret" ELSE "queue"]]
    /\ UNCHANGED <<queues, counter, binary, gpu, bound, live, channel, to_destroy, dropped,
                   destroyed, used, panicked, actual_layout, hist, last, last_update>>
    /\ UNCHANGED <<scopeVars, objectVars, surfaceVars, locks, last_map, shutdownVars>>

\* map_memory, lib.rs 697-702: the read guard of the queue of the previous usage.
MapQueue(t) ==
    /\ ~panicked
    /\ pc[t].at = "queue"
    /\ Available(locks, QueueLock(pc[t].old[1].queue), "read")
    /\ locks' = Acquired(locks, QueueLock(pc[t].old[1].queue), "read", t)
    /\ pc' = [pc EXCEPT ![t].at = "wait"]
    /\ UNCHANGED <<backendVars, scopeVars, objectVars, surfaceVars, last_map, shutdownVars>>

\* lib.rs 705: the wait of the device when the queue has not advanced since the usage,
\* the spin loop otherwise.
WaitBranch(queue, old) ==
    IF target_timeline_value(queue) = old.timeline_value THEN "wait_semaphores" ELSE "spin"

\* A map_memory whose spin loop does not look at the counter.
WaitsForGpuUnlessAdvanced(t) ==
    /\ pc[t].at = "wait"
    /\ WaitBranch(queues[pc[t].old[1].queue], pc[t].old[1]) = "wait_semaphores"
    /\ counter[pc[t].old[1].queue] < pc[t].old[1].timeline_value

\* A thread in map_memory that waits for, or spins on, the semaphore counter of a queue.
WaitsForGpu(t) ==
    /\ pc[t].at = "wait"
    /\ counter[pc[t].old[1].queue] < pc[t].old[1].timeline_value

\* map_memory, lib.rs 704-721: wait_semaphores or the spin loop returns once the counter
\* has reached the value of the previous usage.
MapWait(t) ==
    /\ ~panicked
    /\ pc[t].at = "wait"
    /\ ~WaitsForGpu(t)
    /\ pc' = [pc EXCEPT ![t].at = "ret",
                        ![t].branch = WaitBranch(queues[pc[t].old[1].queue], pc[t].old[1])]
    /\ UNCHANGED <<backendVars, scopeVars, objectVars, surfaceVars, locks, last_map, shutdownVars>>

\* The allocation's mapped pointer: Some for memory the CPU sees, which the allocator
\* maps, None for the device-local memory of a GpuOnly buffer.
mapped_ptr(buffer) == IF MemoryUsage(buffer) = "GpuOnly" THEN <<>> ELSE <<"ptr">>

\* lib.rs 724-727: unwrap of the mapped pointer, then Ok.
map_memory_result(buffer) == IF mapped_ptr(buffer) = <<>> THEN "panic" ELSE "Ok"

\* map_memory, lib.rs 724-727.  The panic unwinds with the registry guard held, which
\* poisons the lock for every later call.
MapReturn(t) ==
    /\ ~panicked
    /\ pc[t].at = "ret"
    /\ last_map' = <<[buffer |-> pc[t].buffer, result |-> map_memory_result(pc[t].buffer),
                      old |-> pc[t].old, branch |-> pc[t].branch, counters |-> counter,
                      entry |-> set_buffer(resource_state, pc[t].buffer, 0, <<>>).old]>>
    /\ panicked' = (map_memory_result(pc[t].buffer) = "panic")
    /\ pc' = [pc EXCEPT ![t] = Idle]
    /\ locks' = Released(locks, t)
    /\ UNCHANGED <<queues, counter, binary, gpu, resource_state, bound, live, channel,
                   to_destroy, dropped, destroyed, used, actual_layout, hist, last,
                   last_update>>
    /\ UNCHANGED <<scopeVars, objectVars, surfaceVars, shutdownVars>>

\* DescriptorSet::update once it holds the registry and the sampler cache.
UpdateStep(t) ==
    /\ pc[t].at = "update"
    /\ UpdateDescriptorSets(pc[t].set, pc[t].resource)
    /\ pc' = [pc EXCEPT ![t] = Idle]
    /\ locks' = Released(locks, t)
    /\ UNCHANGED <<scopeVars, objectVars, surfaceVars, last_map, shutdownVars>>

\* create_buffer: Buffer::new under the allocator guard.
CreateBuffer(t) ==
    /\ ~panicked
    /\ pc[t].at = "create"
    /\ pc' = [pc EXCEPT ![t] = Idle]
    /\ locks' = Released(locks, t)
    /\ UNCHANGED <<backendVars, scopeVars, objectVars, surfaceVars, last_map, shutdownVars>>

NextThreads ==
    \/ \E t \in Threads : \E call \in ThreadCalls : Call(t, call)
    \/ \E t \in Threads : Lock(t)
    \/ \E t \in Threads : SubmitCollect(t)
    \/ \E t \in Threads : SubmitRecord(t)
    \/ \E t \in Threads : MapTake(t)
    \/ \E t \in Threads : MapQueue(t)
    \/ \E t \in Threads : MapWait(t)
    \/ \E t \in Threads : MapReturn(t)
    \/ \E t \in Threads : UpdateStep(t)
    \/ \E t \in Threads : CreateBuffer(t)
    \/ \E queue \in QueueTypes : \E i \in DOMAIN gpu[queue] :
           GpuStart(queue, i) /\ UNCHANGED partVars
    \/ \E queue \in QueueTypes : \E i \in DOMAIN gpu[queue] :
           GpuFinish(queue, i) /\ UNCHANGED partVars

SpecThreads == Init /\ [][NextThreads]_vars

\* map_memory next to submissions of the transfer queue that use the mapped buffer and
\* submissions that do not.
MapCalls ==
    {[op |-> "submit_commands", at |-> "lock", n |-> 1, queue |-> "Transfer",
      commands |-> commands] : commands \in {CopyBufferToBuffer("b1", "b2"), <<>>}}
    \cup {[op |-> "map_memory", at |-> "lock", n |-> 1, buffer |-> "b1"]}

NextMap ==
    \/ \E t \in Threads : \E call \in MapCalls : Call(t, call)
    \/ \E t \in Threads : Lock(t)
    \/ \E t \in Threads : SubmitCollect(t)
    \/ \E t \in Threads : SubmitRecord(t)
    \/ \E t \in Threads : MapTake(t)
    \/ \E t \in Threads : MapQueue(t)
    \/ \E t \in Threads : MapWait(t)
    \/ \E t \in Threads : MapReturn(t)
    \/ \E queue \in QueueTypes : \E i \in DOMAIN gpu[queue] :
           GpuStart(queue, i) /\ UNCHANGED partVars
    \/ \E queue \in QueueTypes : \E i \in DOMAIN gpu[queue] :
           GpuFinish(queue, i) /\ UNCHANGED partVars

SpecMap == Init /\ [][NextMap]_vars

-----------------------------------------------------------------------------
(* render_pass.rs: the framebuffer cache under two threads.  A guard of a DashMap       *)
(* (entry, get, get_mut) locks the shard of its key until it is dropped; every key has  *)
(* a shard of its own here.  get runs inside submit_commands, which holds the locks of  *)
(* SubmitLocks; view_destroyed runs inside update_surface, which holds none.            *)

Guard(map, key, mode) == [map |-> map, key |-> key, mode |-> mode]

\* The guards thread t holds.
Guards(t) == IF "guards" \in DOMAIN pc[t] THEN pc[t].guards ELSE {}

\* RwLock of a shard: readers share, a writer excludes everybody.
GuardFree(t, g) ==
    \A u \in Threads \ {t} : \A h \in Guards(u) :
        (h.map = g.map /\ h.key = g.key) => (h.mode = "read" /\ g.mode = "read")

\* The guard thread t asks for in its next step.
GuardWanted(t) ==
    CASE pc[t].at = "entry" -> {Guard("pass_to_framebuffers", pc[t].pass, "write")}
      [] pc[t].at = "associate" /\ pc[t].i <= Len(pc[t].images) ->
             {Guard("image_to_pass", pc[t].images[pc[t].i], "write")}
      [] pc[t].at = "image_to_pass" -> {Guard("image_to_pass", pc[t].image, "read")}
      [] pc[t].at = "passes" /\ pc[t].todo # <<>> ->
             {Guard("pass_to_framebuffers", pc[t].todo[1], "write")}
      [] OTHER -> {}

\* The orders in which a HashSet may be iterated.
Orders(S) == {s \in [1..Cardinality(S) -> S] : Range(s) = S}

GuardCalls ==
    {[op |-> "get", at |-> "entry", pass |-> native_pass, images |-> images, i |-> 1,
      guards |-> {}] : native_pass \in 1..2, images \in {<<"v1">>, <<"v1", "v2">>}}
    \cup {[op |-> "view_destroyed", at |-> "image_to_pass", image |-> image, todo |-> <<>>,
           guards |-> {}] : image \in ImageViews}

\* The call of FramebufferCache::get out of submit_commands, which took its locks, or
\* of view_destroyed out of update_surface.
GuardCall(t, call) ==
    /\ pc[t] = Idle
    /\ Len(cache_log) + Cardinality({u \in Threads : pc[u] # Idle}) < MaxGuardCalls
    /\ pc' = [pc EXCEPT ![t] = call]
    /\ IF call.op = "get"
       THEN /\ \A n \in DOMAIN SubmitLocks :
                  Available(locks, SubmitLocks[n].lock, SubmitLocks[n].mode)
            /\ locks' = [l \in Locks |->
                            IF l \in {SubmitLocks[n].lock : n \in DOMAIN SubmitLocks}
                            THEN [writer |-> t, readers |-> {}]
                            ELSE locks[l]]
       ELSE locks' = locks
    /\ UNCHANGED <<backendVars, scopeVars, surfaceVars, shutdownVars, recordVars, jobVars,
                   cacheVars, last_map>>

\* get: pass_to_framebuffers.entry(render_pass).or_insert(..), the guard is kept.
GetEntry(t) ==
    /\ pc[t].at = "entry"
    /\ GuardFree(t, Guard("pass_to_framebuffers", pc[t].pass, "write"))
    /\ framebuffers' =
           [framebuffers EXCEPT !.pass_to_framebuffers =
               Insert(@, pc[t].pass, FramebuffersOf(framebuffers, pc[t].pass))]
    /\ pc' = [pc EXCEPT ![t].at = "associate",
                        ![t].guards = @ \cup {Guard("pass_to_framebuffers", pc[t].pass,
                                                    "write")}]
    /\ UNCHANGED <<backendVars, scopeVars, surfaceVars, shutdownVars, recordVars, jobVars,
                   render_passes, cache_log, locks, last_map>>

\* get: one round of "Associate images to pass"; the guard of the image is dropped at
\* the end of the round.
GetAssociate(t) ==
    /\ pc[t].at = "associate"
    /\ pc[t].i <= Len(pc[t].images)
    /\ GuardFree(t, Guard("image_to_pass", pc[t].images[pc[t].i], "write"))
    /\ framebuffers' =
           [framebuffers EXCEPT !.image_to_pass =
               AssociateImages(@, <<pc[t].images[pc[t].i]>>, pc[t].pass)]
    /\ pc' = [pc EXCEPT ![t].i = @ + 1]
    /\ UNCHANGED <<backendVars, scopeVars, surfaceVars, shutdownVars, recordVars, jobVars,
                   render_passes, cache_log, locks, last_map>>

\* get: framebuffers.get(device, images, extent) under the guard of the pass, and the
\* return, which drops the guard; submit_commands returns with it.
GetFramebuffer(t) ==
    /\ pc[t].at = "associate"
    /\ pc[t].i > Len(pc[t].images)
    /\ framebuffers' =
           [framebuffers EXCEPT
               !.pass_to_framebuffers =
                   Insert(@, pc[t].pass,
                          Framebuffers_get(@[pc[t].pass], pc[t].images,
                                           framebuffers.created + 1).fbs),
               !.created =
                   @ + Framebuffers_get(framebuffers.pass_to_framebuffers[pc[t].pass],
                                        pc[t].images, framebuffers.created + 1).created]
    /\ cache_log' =
           Append(cache_log,
                  [op |-> "get", pass |-> pc[t].pass, images |-> pc[t].images,
                   framebuffer |->
                       Framebuffers_get(framebuffers.pass_to_framebuffers[pc[t].pass],
                                        pc[t].images, framebuffers.created + 1).framebuffer])
    /\ pc' = [pc EXCEPT ![t] = Idle]
    /\ locks' = Released(locks, t)
    /\ UNCHANGED <<backendVars, scopeVars, surfaceVars, shutdownVars, recordVars, jobVars,
                   render_passes, last_map>>

\* view_destroyed: image_to_pass.get(&image); None returns, Some keeps the guard for
\* the loop over the passes.
ViewPasses(t) ==
    /\ pc[t].at = "image_to_pass"
    /\ GuardFree(t, Guard("image_to_pass", pc[t].image, "read"))
    /\ IF pc[t].image \notin DOMAIN framebuffers.image_to_pass
       THEN /\ pc' = [pc EXCEPT ![t] = Idle]
            /\ cache_log' = Append(cache_log,
                                   [op |-> "view_destroyed", pass |-> 0,
                                    images |-> <<pc[t].image>>, framebuffer |-> 0])
       ELSE /\ \E order \in Orders(framebuffers.image_to_pass[pc[t].image]) :
                  pc' = [pc EXCEPT ![t].at = "passes",
                                   ![t].todo = order,
                                   ![t].guards = @ \cup {Guard("image_to_pass", pc[t].image,
                                                               "read")}]
            /\ cache_log' = cache_log
    /\ UNCHANGED <<backendVars, scopeVars, surfaceVars, shutdownVars, recordVars, jobVars,
                   render_passes, framebuffers, locks, last_map>>

\* view_destroyed: one round of the loop, pass_to_framebuffers.get_mut(pass) and
\* framebuffers.view_destroyed(device, image); the guard of the pass is dropped at the
\* end of the round.
ViewPass(t) ==
    /\ pc[t].at = "passes"
    /\ pc[t].todo # <<>>
    /\ GuardFree(t, Guard("pass_to_framebuffers", pc[t].todo[1], "write"))
    /\ framebuffers' =
           IF pc[t].todo[1] \notin DOMAIN framebuffers.pass_to_framebuffers
           THEN framebuffers
           ELSE [framebuffers EXCEPT
                    !.pass_to_framebuffers[pc[t].todo[1]] =
                        Framebuffers_view_destroyed(@, pc[t].image),
                    !.destroyed =
                        [fb \in DOMAIN @
                                \cup DestroyedWith(framebuffers, {pc[t].todo[1]},
                                                   pc[t].image) |->
                            UnwrapOrDefault(Lookup(@, fb), 0)
                            + (IF fb \in DestroyedWith(framebuffers, {pc[t].todo[1]},
                                                       pc[t].image)
                               THEN 1 ELSE 0)]]
    /\ pc' = [pc EXCEPT ![t].todo = Tail(@)]
    /\ UNCHANGED <<backendVars, scopeVars, surfaceVars, shutdownVars, recordVars, jobVars,
                   render_passes, cache_log, locks, last_map>>

\* view_destroyed: the return after the loop drops the guard of the image.
ViewReturn(t) ==
    /\ pc[t].at = "passes"
    /\ pc[t].todo = <<>>
    /\ pc' = [pc EXCEPT ![t] = Idle]
    /\ cache_log' = Append(cache_log,
                           [op |-> "view_destroyed", pass |-> 0,
                            images |-> <<pc[t].image>>, framebuffer |-> 0])
    /\ UNCHANGED <<backendVars, scopeVars, surfaceVars, shutdownVars, recordVars, jobVars,
                   render_passes, framebuffers, locks, last_map>>

NextGuards ==
    \/ \E t \in Threads : \E call \in GuardCalls : GuardCall(t, call)
    \/ \E t \in Threads : GetEntry(t)
    \/ \E t \in Threads : GetAssociate(t)
    \/ \E t \in Threads : GetFramebuffer(t)
    \/ \E t \in Threads : ViewPasses(t)
    \/ \E t \in Threads : ViewPass(t)
    \/ \E t \in Threads : ViewReturn(t)

SpecGuards == Init /\ [][NextGuards]_vars

-----------------------------------------------------------------------------
(* Surfaces: acquire_image, present_image, update_surface.                 *)

SurfaceOf(image) == "w1"

ImagesOf(surface) == { i \in SurfaceImages : SurfaceOf(i) = surface }

\* Surface::acquire_image.  The device hands out an image that is neither held by the
\* frontend nor waiting to be presented, and signals the `available` semaphore.
AcquireImage(image) ==
    /\ ~panicked
    /\ image \notin acquired
    /\ image \notin surfaces[SurfaceOf(image)].presenting
    /\ IF surfaces[SurfaceOf(image)].images_acquired + 1 > Cardinality(ImagesOf(SurfaceOf(image)))
       THEN /\ last_surface' = <<[op |-> "acquire_image", surface |-> SurfaceOf(image),
                                  result |-> "NoImages"]>>
            /\ UNCHANGED <<acquired, used, binary>>
       ELSE /\ last_surface' = <<[op |-> "acquire_image", surface |-> SurfaceOf(image),
                                  result |-> "Ok"]>>
            /\ acquired' = acquired \cup {image}
            /\ used' = [used EXCEPT ![image] = FALSE]
            /\ binary' = [binary EXCEPT ![SurfaceSemaphores(image).available] = TRUE]
    /\ UNCHANGED <<queues, counter, gpu, resource_state, bound, live, channel, to_destroy,
                   dropped, destroyed, panicked, actual_layout, hist, last, last_update>>
    /\ UNCHANGED <<scopeVars, objectVars, surfaces, threadVars, shutdownVars>>

\* present_image up to queue_present: the two checks, then the try_read of the present
\* queue, whose unwrap panics while a writer holds the lock.
present_image(surface, image) ==
    IF SurfaceOf(image) # surface THEN "BadImage"
    ELSE IF ~used[image] THEN "NoRender"
    ELSE IF locks["present"].writer # "none" THEN "panic"
    ELSE "queue_present"

\* What the call returns: queue_present reports an up-to-date or an out-of-date swapchain.
PresentResults(outcome) ==
    IF outcome = "queue_present" THEN {"Ok", "Invalidated"} ELSE {outcome}

\* Queue::present of the frontend over present_image: the image is moved in, and handed
\* back inside the error for BadImage and NoRender.
PresentImage(t, surface, image) ==
    /\ ~panicked
    /\ pc[t] = Idle
    /\ image \in acquired
    /\ \A u \in Threads :
           pc[u].op = "submit_commands" => image \notin SurfaceImagesIn(pc[u].commands)
    /\ \E result \in PresentResults(present_image(surface, image)) :
           /\ last_surface' =
                  <<[op |-> "present_image", surface |-> surface, image |-> image,
                     drawn |-> used[image], result |-> result,
                     wait_semaphores |-> IF result \in {"Ok", "Invalidated"}
                                         THEN {SurfaceSemaphores(image).presentable}
                                         ELSE {}]>>
           /\ acquired' = IF result \in {"BadImage", "NoRender"} THEN acquired
                          ELSE acquired \ {image}
           /\ surfaces' = IF result \in {"Ok", "Invalidated"}
                          THEN [surfaces EXCEPT ![surface].presenting = @ \cup {image}]
                          ELSE surfaces
           /\ panicked' = (result = "panic")
    /\ UNCHANGED <<queues, counter, binary, gpu, resource_state, bound, live, channel,
                   to_destroy, dropped, destroyed, used, actual_layout, hist, last,
                   last_update>>
    /\ UNCHANGED <<scopeVars, objectVars, threadVars, shutdownVars>>

\* The device executes a queued present once `presentable` is signalled, and resets it.
PresentExecute(surface, image) ==
    /\ image \in surfaces[surface].presenting
    /\ binary[SurfaceSemaphores(image).presentable]
    /\ binary' = [binary EXCEPT ![SurfaceSemaphores(image).presentable] = FALSE]
    /\ surfaces' = [surfaces EXCEPT ![surface].presenting = @ \ {image}]
    /\ UNCHANGED <<queues, counter, gpu, resource_state, bound, live, channel, to_destroy,
                   dropped, destroyed, used, panicked, actual_layout, hist, last,
                   last_update>>
    /\ UNCHANGED <<scopeVars, objectVars, acquired, last_surface, threadVars, shutdownVars>>

\* One more destroy call for every handle of the set.
DestroyAll(destroy_calls, handles) ==
    [h \in DOMAIN destroy_calls \cup handles |->
        UnwrapOrDefault(Lookup(destroy_calls, h), 0) + (IF h \in handles THEN 1 ELSE 0)]

\* The handles Surface::release destroys: the semaphores and the views it drains, and the
\* swapchain if the field is not null.
ReleasedHandles(surface) ==
    {surface.semaphores[i].available : i \in DOMAIN surface.semaphores}
    \cup {surface.semaphores[i].presentable : i \in DOMAIN surface.semaphores}
    \cup Range(surface.images)
    \cup (IF surface.swapchain # 0 THEN {SwapchainHandle(surface.swapchain)} ELSE {})

\* Surface::release.  The swapchain field keeps its handle.
Surface_release(surface) ==
    [surface EXCEPT !.destroy_calls = DestroyAll(@, ReleasedHandles(surface)),
                    !.semaphores = <<>>,
                    !.images = <<>>,
                    !.releases = @ + 1]

\* What the driver answers during update_config: the query or creation that fails, if
\* any, and the number of images of the new swapchain.
Outcome(fails, images) == [fails |-> fails, images |-> images]

Outcomes ==
    {Outcome(fails, 0) : fails \in {"capabilities", "present_modes", "formats",
                                     "create_swapchain", "get_swapchain_images"}}
    \cup {Outcome("none", images) : images \in 1..2}

\* update_config from `self.swapchain = create_swapchain(..)` on, for the released
\* surface.
Surface_recreate(released, outcome) ==
    IF outcome.fails = "get_swapchain_images"
    THEN [result |-> "Other",
          surface |-> [released EXCEPT !.swapchain = released.created + 1,
                                       !.created = @ + 1]]
    ELSE [result |-> "Ok",
          surface |->
              [released EXCEPT
                  !.swapchain = released.created + 1,
                  !.created = @ + 1,
                  !.images = [i \in 1..outcome.images |->
                                 ViewHandle(released.created + 1, i)],
                  !.semaphores = released.semaphores
                                 \o [i \in 1..outcome.images |->
                                        SemaphoreHandles(released.created + 1, i)],
                  !.next_semaphore = 0]]

\* Surface::update_config with the answers of the driver: the check of images_acquired,
\* release, the three queries, create_swapchain, the views and the semaphores.
Surface_update_config(surface, outcome) ==
    IF surface.images_acquired # 0
    THEN [result |-> "ImagePending", surface |-> surface]
    ELSE IF outcome.fails \in {"capabilities", "present_modes", "formats", "create_swapchain"}
    THEN [result |-> "Other", surface |-> Surface_release(surface)]
    ELSE Surface_recreate(Surface_release(surface), outcome)

\* Surface::update_config on a driver that answers every call and keeps the number of
\* images.
update_config(surface) ==
    Surface_update_config(surface, Outcome("none", Len(surface.images)))

\* update_surface: device_wait_idle, view_destroyed for every view, update_config.
UpdateSurface(surface) ==
    /\ ~panicked
    /\ \A queue \in QueueTypes : gpu[queue] = <<>>
    /\ surfaces[surface].swapchain < MaxSwapchains
    /\ LET notified == [surfaces[surface] EXCEPT
                            !.views_destroyed = @ + Cardinality(ImagesOf(surface))]
       IN  /\ surfaces' = [surfaces EXCEPT ![surface] = update_config(notified).surface]
           /\ last_surface' =
                  <<[op |-> "update_surface", surface |-> surface,
                     outstanding |-> acquired \cap ImagesOf(surface),
                     result |-> update_config(notified).result,
                     before |-> surfaces[surface]]>>
    /\ UNCHANGED <<backendVars, scopeVars, objectVars, acquired, threadVars, shutdownVars>>

\* update_surface with the answers of the driver.
ReconfigureSurface(surface, outcome) ==
    /\ ~panicked
    /\ surfaces[surface].alive
    /\ surfaces[surface].releases < MaxReleases
    /\ \A queue \in QueueTypes : gpu[queue] = <<>>
    /\ surfaces' =
           [surfaces EXCEPT ![surface] =
               Surface_update_config(
                   [@ EXCEPT !.views_destroyed = @ + Len(surfaces[surface].images)],
                   outcome).surface]
    /\ last_surface' =
           <<[op |-> "update_surface", surface |-> surface, outstanding |-> {},
              result |-> Surface_update_config(surfaces[surface], outcome).result,
              before |-> surfaces[surface]]>>
    /\ UNCHANGED <<backendVars, scopeVars, objectVars, acquired, threadVars, shutdownVars>>

\* destroy_surface: device_wait_idle, release, destroy_surface of the loader.
DestroySurface(surface) ==
    /\ ~panicked
    /\ surfaces[surface].alive
    /\ surfaces[surface].releases < MaxReleases
    /\ \A queue \in QueueTypes : gpu[queue] = <<>>
    /\ surfaces' = [surfaces EXCEPT ![surface] =
                       [Surface_release(@) EXCEPT !.alive = FALSE]]
    /\ last_surface' =
           <<[op |-> "destroy_surface", surface |-> surface, outstanding |-> {},
              result |-> "Ok", before |-> surfaces[surface]]>>
    /\ UNCHANGED <<backendVars, scopeVars, objectVars, acquired, threadVars, shutdownVars>>

\* create_surface: a Surface with a null swapchain and empty lists, then update_config;
\* on an error the value is dropped, without release.
CreateSurface(surface, outcome) ==
    /\ ~panicked
    /\ ~surfaces[surface].alive
    /\ surfaces[surface].releases < MaxReleases
    /\ surfaces' =
           [surfaces EXCEPT ![surface] =
               [Surface_update_config(
                    [@ EXCEPT !.swapchain = 0, !.images = <<>>, !.semaphores = <<>>,
                              !.next_semaphore = 0, !.images_acquired = 0],
                    outcome).surface
                EXCEPT !.alive = (outcome.fails = "none")]]
    /\ last_surface' =
           <<[op |-> "create_surface", surface |-> surface, outstanding |-> {},
              result |-> IF outcome.fails = "none" THEN "Ok" ELSE "BadConfig",
              before |-> surfaces[surface]]>>
    /\ UNCHANGED <<backendVars, scopeVars, objectVars, acquired, threadVars, shutdownVars>>

\* Surface::acquire_image on the native lists: the check against images.len(), then the
\* rolling index into the semaphores; a remainder by zero panics.
AcquireNext(surface) ==
    /\ ~panicked
    /\ surfaces[surface].alive
    /\ hist.calls < MaxAcquires
    /\ IF surfaces[surface].images_acquired + 1 > Len(surfaces[surface].images)
       THEN /\ last_surface' = <<[op |-> "acquire_image", surface |-> surface,
                                  result |-> "NoImages"]>>
            /\ UNCHANGED <<surfaces, panicked>>
       ELSE IF Len(surfaces[surface].semaphores) = 0
       THEN /\ last_surface' = <<[op |-> "acquire_image", surface |-> surface,
                                  result |-> "panic"]>>
            /\ panicked' = TRUE
            /\ UNCHANGED surfaces
       ELSE /\ surfaces' =
                  [surfaces EXCEPT ![surface].next_semaphore =
                      (@ + 1) % Len(surfaces[surface].semaphores)]
            /\ last_surface' =
                  <<[op |-> "acquire_image", surface |-> surface, result |-> "Ok",
                     index |-> (surfaces[surface].next_semaphore + 1)
                               % Len(surfaces[surface].semaphores)]>>
            /\ UNCHANGED panicked
    /\ hist' = [hist EXCEPT !.calls = @ + 1]
    /\ UNCHANGED <<queues, counter, binary, gpu, resource_state, bound, live, channel,
                   to_destroy, dropped, destroyed, used, actual_layout, last, last_update>>
    /\ UNCHANGED <<scopeVars, objectVars, acquired, threadVars, shutdownVars>>

NextSwapchain ==
    \/ \E surface \in {"w1"} : \E outcome \in Outcomes : ReconfigureSurface(surface, outcome)
    \/ \E surface \in {"w1"} : DestroySurface(surface)
    \/ \E surface \in {"w1"} : \E outcome \in Outcomes : CreateSurface(surface, outcome)
    \/ \E surface \in {"w1"} : AcquireNext(surface)

SpecSwapchain == Init /\ [][NextSwapchain]_vars

SurfaceCalls ==
    {[op |-> "submit_commands", at |-> "lock", n |-> 1, queue |-> "Main",
      commands |-> RenderPass(SurfaceAttachment("s1", "Clear"), <<>>)],
     [op |-> "submit_commands", at |-> "lock", n |-> 1, queue |-> "Transfer",
      commands |-> CopyBufferToBuffer("b1", "b2")]}

NextSurface ==
    \/ \E t \in Threads : \E call \in SurfaceCalls : Call(t, call)
    \/ \E t \in Threads : Lock(t)
    \/ \E t \in Threads : SubmitCollect(t)
    \/ \E t \in Threads : SubmitRecord(t)
    \/ \E queue \in QueueTypes : \E i \in DOMAIN gpu[queue] :
           GpuStart(queue, i) /\ UNCHANGED partVars
    \/ \E queue \in QueueTypes : \E i \in DOMAIN gpu[queue] :
           GpuFinish(queue, i) /\ UNCHANGED partVars
    \/ \E image \in SurfaceImages : AcquireImage(image)
    \/ \E t \in Threads : \E surface \in Surfaces : \E image \in SurfaceImages :
           PresentImage(t, surface, image)
    \/ \E surface \in Surfaces : \E image \in SurfaceImages : PresentExecute(surface, image)
    \/ \E surface \in Surfaces : UpdateSurface(surface)

SpecSurface == Init /\ [][NextSurface]_vars

-----------------------------------------------------------------------------
(* Shutdown: the handles are dropped, then the backend.                    *)

\* impl Drop for DescriptorSet: the set and its bindings are sent to the collector.
DropDescriptorSet(set) ==
    /\ ~panicked
    /\ set \in live_sets
    /\ live_sets' = live_sets \ {set}
    /\ channel' = Append(channel, GarbageSet(set))
    /\ UNCHANGED <<queues, counter, binary, gpu, resource_state, bound, live, to_destroy,
                   dropped, destroyed, used, panicked, actual_layout, hist, last,
                   last_update>>
    /\ UNCHANGED <<scopeVars, objectVars, surfaceVars, threadVars, alive>>

\* impl Drop for VulkanBackend.  Every frontend object holds the context, so the backend
\* is dropped after the last of them; device_wait_idle returns once the queues are empty;
\* then the one sweep.
Shutdown ==
    /\ ~panicked
    /\ live = {}
    /\ live_sets = {}
    /\ \A queue \in QueueTypes : gpu[queue] = <<>>
    /\ CollectGarbage(cleanup(to_destroy, channel, CurrentValues, TargetValues),
                      Intake(to_destroy, channel, TargetValues))
    /\ alive' = FALSE
    /\ UNCHANGED <<queues, counter, binary, gpu, resource_state, bound, live, dropped, used,
                   panicked, actual_layout, hist, last, last_update>>
    /\ UNCHANGED <<scopeVars, objectVars, surfaceVars, threadVars, live_sets>>

NextShutdown ==
    \/ /\ alive
       /\ hist.calls < MaxShutdownSubmits
       /\ \E queue \in {"Transfer"} : \E commands \in {CopyBufferToBuffer("b1", "b2")} :
              SubmitCommands(queue, commands, FALSE)
       /\ UNCHANGED partVars
    \/ \E queue \in QueueTypes : \E i \in DOMAIN gpu[queue] :
           alive /\ GpuStart(queue, i) /\ UNCHANGED partVars
    \/ \E queue \in QueueTypes : \E i \in DOMAIN gpu[queue] :
           alive /\ GpuFinish(queue, i) /\ UNCHANGED partVars
    \/ \E set \in {"ds1"} : \E resource \in Buffers :
           /\ alive
           /\ set \in live_sets
           /\ UpdateDescriptorSets(set, resource)
           /\ UNCHANGED partVars
    \/ \E buffer \in Buffers \cup GpuOnlyBuffers :
           alive /\ DropBuffer(buffer) /\ UNCHANGED partVars
    \/ \E set \in DescriptorSets : alive /\ DropDescriptorSet(set)
    \/ alive /\ Shutdown

SpecShutdown == Init /\ [][NextShutdown]_vars

\* One usage scope built by up to MaxUses use_resource calls.  The calls are on one image
\* sub-resource, with the layouts a scope is given for a texture (attachment, sampled) and
\* UNDEFINED, and on one buffer, whose layout is always UNDEFINED.
ScopeUsages(layouts) ==
    { Usage(access, stage, layout) :
        access \in {{"SHADER_READ"}, {"COLOR_ATTACHMENT_WRITE"}},
        stage \in {{"FRAGMENT_SHADER"}, {"COLOR_ATTACHMENT_OUTPUT"}},
        layout \in layouts }

ScopeCalls ==
    { [subresource |-> TextureSub("t1", "COLOR", 0, 0), usage |-> usage] :
        usage \in ScopeUsages({"UNDEFINED", "COLOR_ATTACHMENT_OPTIMAL",
                               "SHADER_READ_ONLY_OPTIMAL"}) }
    \cup { [subresource |-> BufferSub("b1", 0), usage |-> usage] :
             usage \in ScopeUsages({"UNDEFINED"}) }

InitScope ==
    /\ InitBackend
    /\ \E n \in 1..MaxUses : \E todo \in [1..n -> ScopeCalls] :
           uses = [todo |-> todo, done |-> <<>>, scope |-> EmptyScope]

\* The next call of the sequence; a failed assert! unwinds, no further call is made.
UseResource ==
    /\ uses.todo # <<>>
    /\ ~uses.scope.panicked
    /\ uses' = [todo |-> Tail(uses.todo),
                done |-> Append(uses.done, Head(uses.todo)),
                scope |-> use_resource(uses.scope, Head(uses.todo).subresource,
                                       Head(uses.todo).usage)]
    /\ UNCHANGED <<backendVars, objectVars, surfaceVars, threadVars, shutdownVars>>

NextScope == UseResource

SpecScope == InitScope /\ [][NextScope]_vars

-----------------------------------------------------------------------------
(* Properties.  The observation variable `last` holds the most recent submit_commands    *)
(* call: the registry and the queue before it, the scopes it submitted to the tracker,   *)
(* the native command stream it recorded and the native submission it built.             *)

LayoutKey(r) == <<r.h, r.elem, r.mip>>

\* The queue usage the registry g holds for sub-resource r.
RegistryUsage(g, r) ==
    IF r.kind = "Buffer" THEN Lookup(g.buffers, <<r.h, r.elem>>)
    ELSE Lookup(g.images, <<r.h, r.elem>>)

\* The sub-resources the scopes of a submission use.
TouchedBy(scopes) == UNION {DOMAIN scopes[k].usages : k \in DOMAIN scopes}

\* The rank of the earliest stage at which a command of the submission uses r.
EarliestUseRank(scopes, r) ==
    LET ranks == {rank_pipeline_stage({st}) :
                     st \in UNION {scopes[k].usages[r].stage :
                                      k \in {j \in DOMAIN scopes : r \in DOMAIN scopes[j].usages}}}
    IN  CHOOSE m \in ranks : \A x \in ranks : m <= x

\* The waits of a native submission on the timeline semaphore of `queue`.
TimelineWaits(native, queue) ==
    {w \in native.waits : w.semaphore = TimelineSemaphore(queue)}

\* The position in the native command stream of command i of the submission: every
\* command is recorded once, after the pipeline barrier of its scope, if there is one.
CmdPos(sub, i) ==
    i + Cardinality({k \in DOMAIN sub.scopes :
                        sub.scopes[k].index <= i /\ sub.scopes[k].barrier # <<>>})

\* The pipeline barrier of scope sc is recorded directly before the scope's command.
RecordedBefore(sub, sc) ==
    /\ sc.barrier # <<>>
    /\ sub.stream[CmdPos(sub, sc.index) - 1] =
           [op |-> "PipelineBarrier", barrier |-> sc.barrier[1]]
    /\ sub.stream[CmdPos(sub, sc.index)].op = sub.commands[sc.index].op

\* The image barriers a scope recorded for sub-resource r.
ImageBarriersOf(sc, r) ==
    IF sc.barrier = <<>> THEN {}
    ELSE {b \in sc.barrier[1].image_barriers :
             b.image = r.h /\ b.base_array_layer = r.elem /\ b.base_mip_level = r.mip}

RegistryLayout(sc, r) ==
    UnwrapOrDefault(Lookup(sc.layouts_before, LayoutKey(r)), "UNDEFINED")

TexturesOf(sc) == {r \in DOMAIN sc.usages : r.kind = "Texture"}

\* A submission on a queue that uses a sub-resource the registry names another queue for.
CrossQueueUses(sub) ==
    {r \in TouchedBy(sub.scopes) :
        /\ RegistryUsage(sub.registry_before, r) # <<>>
        /\ RegistryUsage(sub.registry_before, r)[1].queue # sub.queue}

\* C1: every submission that uses a sub-resource last used on another queue Q' at value
\* V waits on the semaphore of Q' for a value >= V at a stage whose rank is at most the
\* rank of the earliest stage at which one of its commands uses the sub-resource.
C1_CrossQueueWaitAtEarliestStage ==
    last # <<>> =>
        \A r \in CrossQueueUses(last[1]) :
            \E w \in TimelineWaits(last[1].native,
                                   RegistryUsage(last[1].registry_before, r)[1].queue) :
                /\ w.value >= RegistryUsage(last[1].registry_before, r)[1].timeline_value
                /\ rank_pipeline_stage(w.stage) <= EarliestUseRank(last[1].scopes, r)

\* A submission that waits for another queue at TRANSFER although it also reads the
\* sub-resource at VERTEX_INPUT, with no barrier between its two reads.
C1_LateWaitReached ==
    /\ last # <<>>
    /\ \E r \in CrossQueueUses(last[1]) :
           /\ EarliestUseRank(last[1].scopes, r) = rank_pipeline_stage({"VERTEX_INPUT"})
           /\ \A k \in DOMAIN last[1].scopes :
                  \/ last[1].scopes[k].barrier = <<>>
                  \/ \A b \in last[1].scopes[k].barrier[1].buffer_barriers : b.buffer # r.h
           /\ \A w \in TimelineWaits(last[1].native,
                                     RegistryUsage(last[1].registry_before, r)[1].queue) :
                  /\ w.value >= RegistryUsage(last[1].registry_before, r)[1].timeline_value
                  /\ w.stage = {"TRANSFER"}

\* C2: for every scope of a submission and every image sub-resource it uses, with L the
\* layout the registry stores and L' the layout the scope requests: if L # L' exactly one
\* image barrier is recorded for the sub-resource, it goes from L to L' and is recorded
\* before the scope's command; if L = L' no layout transition is recorded; either way the
\* registry stores L' afterwards.
C2_OneTransitionBeforeFirstUse ==
    last # <<>> =>
        \A k \in DOMAIN last[1].scopes : \A r \in TexturesOf(last[1].scopes[k]) :
            /\ last[1].scopes[k].layouts_after[LayoutKey(r)] = last[1].scopes[k].usages[r].layout
            /\ IF RegistryLayout(last[1].scopes[k], r) # last[1].scopes[k].usages[r].layout
               THEN /\ Cardinality(ImageBarriersOf(last[1].scopes[k], r)) = 1
                    /\ \A b \in ImageBarriersOf(last[1].scopes[k], r) :
                           /\ b.old_layout = RegistryLayout(last[1].scopes[k], r)
                           /\ b.new_layout = last[1].scopes[k].usages[r].layout
                    /\ RecordedBefore(last[1], last[1].scopes[k])
               ELSE \A b \in ImageBarriersOf(last[1].scopes[k], r) :
                        b.old_layout = b.new_layout

\* A submission with a scope that moves an image out of a layout an earlier scope put it
\* in, and a scope that finds the image in the layout it requests.
C2_TransitionReached ==
    /\ last # <<>>
    /\ \E k \in DOMAIN last[1].scopes : \E r \in TexturesOf(last[1].scopes[k]) :
           /\ RegistryLayout(last[1].scopes[k], r) \notin
                  {"UNDEFINED", last[1].scopes[k].usages[r].layout}
           /\ ImageBarriersOf(last[1].scopes[k], r) # {}
    /\ \E k \in DOMAIN last[1].scopes : \E r \in TexturesOf(last[1].scopes[k]) :
           RegistryLayout(last[1].scopes[k], r) = last[1].scopes[k].usages[r].layout

\* C9: after any sequence of submissions the layout the registry stores for an image
\* sub-resource is the layout the image has once all recorded commands have executed.
C9_RegistryLayoutIsActualLayout ==
    \A key \in DOMAIN resource_state.image_layouts :
        /\ key \in DOMAIN actual_layout
        /\ actual_layout[key] = resource_state.image_layouts[key]

\* A surface image left in PRESENT_SRC_KHR by its render pass while the registry stores
\* COLOR_ATTACHMENT_OPTIMAL for it.
C9_SurfaceLayoutDiverges ==
    \E i \in SurfaceImages :
        /\ <<i, 0, 0>> \in DOMAIN resource_state.image_layouts
        /\ <<i, 0, 0>> \in DOMAIN actual_layout
        /\ resource_state.image_layouts[<<i, 0, 0>>] = "COLOR_ATTACHMENT_OPTIMAL"
        /\ actual_layout[<<i, 0, 0>>] = "PRESENT_SRC_KHR"

\* The first use of image sub-resource r in a submission, by scope sc, with a layout
\* other than the one the registry stores.
FirstUseWithTransition(sc, r) ==
    /\ r \notin DOMAIN sc.usages_before
    /\ RegistryLayout(sc, r) # sc.usages[r].layout

\* C10: the barrier of a first use with a layout change has source access NONE, source
\* stage TOP_OF_PIPE, the scope's access as destination access, the registry's layout as
\* old layout (UNDEFINED for an image never used) and the requested layout as new one; a
\* texture never used before and used as a color attachment gets the single image barrier
\* UNDEFINED -> COLOR_ATTACHMENT_OPTIMAL with destination access COLOR_ATTACHMENT_READ |
\* COLOR_ATTACHMENT_WRITE, recorded before BeginRenderPass.
C10_FirstUseBarrierFromTopOfPipe ==
    last # <<>> =>
        \A k \in DOMAIN last[1].scopes : \A r \in TexturesOf(last[1].scopes[k]) :
            FirstUseWithTransition(last[1].scopes[k], r) =>
                /\ RecordedBefore(last[1], last[1].scopes[k])
                /\ "TOP_OF_PIPE" \in last[1].scopes[k].barrier[1].src_stage
                /\ ImageBarriersOf(last[1].scopes[k], r) =
                       {[src_access_mask |-> {},
                         dst_access_mask |-> last[1].scopes[k].usages[r].access,
                         old_layout |-> RegistryLayout(last[1].scopes[k], r),
                         new_layout |-> last[1].scopes[k].usages[r].layout,
                         image |-> r.h, aspect_mask |-> r.aspect,
                         base_mip_level |-> r.mip, base_array_layer |-> r.elem]}
                /\ (/\ last[1].commands[last[1].scopes[k].index].op = "BeginRenderPass"
                    /\ LayoutKey(r) \notin DOMAIN last[1].scopes[k].layouts_before
                    /\ last[1].scopes[k].usages[r] = ColorAttachmentUsage)
                   => \A b \in ImageBarriersOf(last[1].scopes[k], r) :
                          /\ b.src_access_mask = {}
                          /\ b.dst_access_mask =
                                 {"COLOR_ATTACHMENT_READ", "COLOR_ATTACHMENT_WRITE"}
                          /\ b.old_layout = "UNDEFINED"
                          /\ b.new_layout = "COLOR_ATTACHMENT_OPTIMAL"

\* A texture never used before is the color attachment of a render pass.
C10_FirstUseReached ==
    /\ last # <<>>
    /\ \E k \in DOMAIN last[1].scopes : \E r \in TexturesOf(last[1].scopes[k]) :
           /\ FirstUseWithTransition(last[1].scopes[k], r)
           /\ r.h \in Textures
           /\ last[1].commands[last[1].scopes[k].index].op = "BeginRenderPass"
           /\ LayoutKey(r) \notin DOMAIN last[1].scopes[k].layouts_before

InCallOrder ==
    \A q \in QueueTypes :
        /\ \A i \in DOMAIN gpu[q] :
               gpu[q][i].started =>
                   /\ i = 1
                   /\ counter[q] = gpu[q][i].native.signals[1].value - 1
        /\ hist.finished[q] = [k \in 1..counter[q] |-> k]

\* C4: on every queue the k-th submission does not start before the (k-1)-th has
\* finished, the counter takes the values 1, 2, 3, ... in call order and never decreases,
\* whether or not command buffers are reused.
C4_SubmissionsRunInCallOrder ==
    /\ []InCallOrder
    /\ [][\A q \in QueueTypes : counter'[q] >= counter[q]]_vars

\* The third submission of a queue, recorded into a reused command buffer, is running.
C4_ReusedRunningReached ==
    /\ last # <<>>
    /\ last[1].recycled
    /\ counter[last[1].queue] >= 2
    /\ gpu[last[1].queue] # <<>>
    /\ gpu[last[1].queue][1].started
    /\ gpu[last[1].queue][1].native.command_buffer = last[1].command_buffer

\* C5: target_value of every queue starts at 0, grows by exactly 1 with every
\* VkQueue::submit and is changed by nothing else.
C5_TargetValueCountsSubmits ==
    /\ [](\A q \in QueueTypes : queues[q].target_value = hist.submits[q])
    /\ [][\A q \in QueueTypes :
             queues'[q].target_value =
                 queues[q].target_value + (IF hist'.submits[q] # hist.submits[q] THEN 1 ELSE 0)]_vars

\* A queue has had two submits, one into a reused command buffer, and the collector has
\* destroyed a buffer.
C5_TargetAfterOtherOperationsReached ==
    /\ last # <<>>
    /\ last[1].recycled
    /\ queues[last[1].queue].target_value >= 2
    /\ DOMAIN destroyed # {}

\* C6: a native submission waits on its queue's own semaphore for the target the queue
\* had before the call, at TOP_OF_PIPE, and signals it with that value plus one, which is
\* the queue's target after the call, the next-target value submit_commands computed and
\* the value the registry holds for every sub-resource the submission used.
C6_SelfWaitAndSelfSignal ==
    last # <<>> =>
        /\ TimelineWaits(last[1].native, last[1].queue) =
               {[semaphore |-> TimelineSemaphore(last[1].queue),
                 value |-> last[1].target_before,
                 stage |-> {"TOP_OF_PIPE"}]}
        /\ \E i \in DOMAIN last[1].native.signals :
               last[1].native.signals[i].semaphore = TimelineSemaphore(last[1].queue)
        /\ \A i \in DOMAIN last[1].native.signals :
               last[1].native.signals[i].semaphore = TimelineSemaphore(last[1].queue) =>
                   last[1].native.signals[i].value = last[1].target_before + 1
        /\ queues[last[1].queue].target_value = last[1].target_before + 1
        /\ last[1].next_target_value = last[1].target_before + 1
        /\ \A r \in TouchedBy(last[1].scopes) :
               RegistryUsage(resource_state, r) =
                   <<QueueUsage(last[1].queue, last[1].target_before + 1)>>

\* The second submission of a queue, using a sub-resource.
C6_SecondSubmissionReached ==
    /\ last # <<>>
    /\ last[1].target_before >= 1
    /\ TouchedBy(last[1].scopes) # {}

\* C7: allocate_command_buffer hands out a submitted command buffer only if the counter
\* has reached the target recorded for it, and otherwise a fresh one, leaving the FIFO as
\* it is; the targets in the FIFO increase strictly from front to back, no command buffer
\* is in the FIFO twice, and no command buffer is in two unfinished submissions.
C7_CommandBufferReuse ==
    /\ last # <<>> =>
           IF last[1].recycled
           THEN /\ last[1].free_before # <<>>
                /\ last[1].command_buffer = last[1].free_before[1].command_buffer
                /\ last[1].cur_value >= last[1].free_before[1].target
                /\ last[1].free_allocated = Tail(last[1].free_before)
           ELSE /\ last[1].free_allocated = last[1].free_before
                /\ \A i \in DOMAIN last[1].free_before :
                       last[1].free_before[i].command_buffer # last[1].command_buffer
    /\ \A q \in QueueTypes : \A i, j \in DOMAIN queues[q].free :
           i < j => /\ queues[q].free[i].target < queues[q].free[j].target
                    /\ queues[q].free[i].command_buffer # queues[q].free[j].command_buffer
    /\ \A q \in QueueTypes : \A i, j \in DOMAIN gpu[q] :
           i # j => gpu[q][i].native.command_buffer # gpu[q][j].native.command_buffer

\* The front of the FIFO is reused while a later submission is still pending.
C7_ReuseReached ==
    /\ last # <<>>
    /\ last[1].recycled
    /\ Len(last[1].free_before) >= 2
    /\ Len(gpu[last[1].queue]) >= 2

\* C8: an update of a descriptor set bound in a submission with target V on queue Q is
\* not made before the counter of Q has reached V, and it clears the registry entry of
\* the set.
C8_UpdateWaitsForBoundSubmission ==
    last_update # <<>> =>
        /\ last_update[1].set \notin DOMAIN resource_state.sets
        /\ last_update[1].bound_in # <<>> =>
               last_update[1].counters[last_update[1].bound_in[1].queue] >=
                   last_update[1].bound_in[1].timeline_value

\* A set bound in a submission is updated, without a wait, before the submission finishes.
C8_UpdateBeforeCompletionReached ==
    /\ last_update # <<>>
    /\ last_update[1].bound_in # <<>>
    /\ last_update[1].waited = <<>>
    /\ last_update[1].counters[last_update[1].bound_in[1].queue] <
           last_update[1].bound_in[1].timeline_value

-----------------------------------------------------------------------------
(* C11                                                                     *)

\* The calls made on the sub-resource of call j, before call j.
EarlierUses(done, j) ==
    { i \in 1..(j - 1) : done[i].subresource = done[j].subresource }

\* Call j follows a call on the same sub-resource whose layout, the one the entry holds,
\* is neither UNDEFINED nor the layout of call j.
LayoutClash(done, j) ==
    /\ EarlierUses(done, j) # {}
    /\ LET i == CHOOSE k \in EarlierUses(done, j) :
                    \A o \in EarlierUses(done, j) : o <= k
       IN  done[i].usage.layout \notin {"UNDEFINED", done[j].usage.layout}

UsesOf(done, subresource) == { i \in DOMAIN done : done[i].subresource = subresource }

\* The scope holds, for every sub-resource used, the union of the accesses and of the
\* stages of all its uses.
ScopeIsUnionOfUses(scope, done) ==
    /\ DOMAIN scope.usages = { done[i].subresource : i \in DOMAIN done }
    /\ \A s \in DOMAIN scope.usages :
           /\ scope.usages[s].access = UNION { done[i].usage.access : i \in UsesOf(done, s) }
           /\ scope.usages[s].stage = UNION { done[i].usage.stage : i \in UsesOf(done, s) }

\* C11 (as stated): use_resource panics exactly when one image sub-resource is requested
\* with two distinct non-UNDEFINED layouts in the scope; otherwise the entry's access and
\* stage are the union of all uses.
C11_PanicsIffTwoDistinctLayouts ==
    /\ uses.scope.panicked <=>
           \E i, j \in DOMAIN uses.done :
               /\ uses.done[i].subresource = uses.done[j].subresource
               /\ uses.done[i].subresource.kind # "Buffer"
               /\ uses.done[i].usage.layout # "UNDEFINED"
               /\ uses.done[j].usage.layout # "UNDEFINED"
               /\ uses.done[i].usage.layout # uses.done[j].usage.layout
    /\ ~uses.scope.panicked => ScopeIsUnionOfUses(uses.scope, uses.done)

\* C11 (amended): use_resource panics exactly when a request follows a request for the same
\* sub-resource whose layout is not UNDEFINED and differs from its own, a request for
\* UNDEFINED after a defined layout included; when no call panics the entry's access and
\* stage are the union of all uses, whatever their order.
C11_PanicsIffLayoutChangesFromDefined ==
    /\ uses.scope.panicked <=> \E j \in DOMAIN uses.done : LayoutClash(uses.done, j)
    /\ ~uses.scope.panicked => ScopeIsUnionOfUses(uses.scope, uses.done)

\* An image sub-resource requested in a defined layout and then in UNDEFINED: the second
\* call panics.
C11_UndefinedAfterDefinedPanics ==
    /\ Len(uses.done) = 2
    /\ uses.scope.panicked
    /\ uses.done[1].subresource = uses.done[2].subresource
    /\ uses.done[1].usage.layout = "SHADER_READ_ONLY_OPTIMAL"
    /\ uses.done[2].usage.layout = "UNDEFINED"

-----------------------------------------------------------------------------
(* C12                                                                     *)

RegistryHolders(lk) ==
    { t \in Threads : lk["resource_state"].writer = t \/ t \in lk["resource_state"].readers }

\* C12: at most one thread at a time holds the guard of the usage registry, through which
\* submit_commands, map_memory and update_descriptor_sets make all their accesses to it;
\* the registry a submission saw when it computed its next target value is the registry it
\* records into, and that value is the target value of its queue after its queue.submit.
C12_RegistrySectionIsExclusive ==
    [][/\ Cardinality(RegistryHolders(locks')) <= 1
       /\ \A t \in Threads :
              pc[t].at = "record" =>
                  /\ resource_state = pc[t].resc_state
                  /\ pc'[t].at = "idle" =>
                         queues'[pc[t].queue].target_value = pc[t].next_target_value]_vars

\* A submission between its sweep and its recording while the other thread waits for the
\* registry in map_memory of a buffer the registry has an entry for.
C12_MapWaitsForSubmissionReached ==
    \E t, u \in Threads :
        /\ pc[t].at = "record"
        /\ pc[u].at = "lock"
        /\ pc[u].op = "map_memory"
        /\ pc[u].buffer = "b1"
        /\ Lookup(resource_state.buffers, <<"b1", 0>>) # <<>>

-----------------------------------------------------------------------------
(* C13, C14                                                                *)

\* The position of a lock in the documented order: usage registry, allocator, descriptor
\* pools, pipeline cache, main, transfer, compute, present, sampler cache.
LockRank(lock) ==
    CASE lock = "resource_state" -> 1
      [] lock = "allocator" -> 2
      [] lock = "main" -> 5
      [] lock = "transfer" -> 6
      [] lock = "compute" -> 7
      [] lock = "present" -> 8
      [] lock = "samplers" -> 9

\* The lock request a thread is at, if any.
Wanted(t) ==
    CASE pc[t].at = "lock" -> <<OpLocks(pc[t].op)[pc[t].n]>>
      [] pc[t].at = "queue" -> <<Req(QueueLock(pc[t].old[1].queue), "read")>>
      [] OTHER -> <<>>

Blocked(t) == Wanted(t) # <<>> /\ ~Available(locks, Wanted(t)[1].lock, Wanted(t)[1].mode)

\* C13: a thread asks only for locks that come after every lock it holds in the order
\* usage registry, allocator, descriptor pools, pipeline cache, main, transfer, compute,
\* present, sampler cache, and the threads are never all waiting for locks.
C13_LocksTakenInOrder ==
    /\ \A t \in Threads :
           Wanted(t) # <<>> => \A h \in HeldBy(t) : LockRank(h) < LockRank(Wanted(t)[1].lock)
    /\ \E t \in Threads : ~Blocked(t)

\* A thread in submit_commands holds the registry and the allocator and asks for a queue
\* while the other thread waits for the allocator in create_buffer.
C13_ContendedLockReached ==
    \E t, u \in Threads :
        /\ pc[t].op = "submit_commands"
        /\ pc[t].at = "lock"
        /\ pc[t].n = 4
        /\ pc[u].op = "create_buffer"
        /\ Blocked(u)

\* C14: a thread in submit_commands never waits for a lock whose holder waits for a
\* semaphore counter to advance, so the call returns whatever the GPU does.
C14_SubmitNeverWaitsForGpu ==
    \A t, u \in Threads :
        (pc[t].op = "submit_commands" /\ Blocked(t) /\ Wanted(t)[1].lock \in HeldBy(u))
            => ~WaitsForGpu(u)

\* A thread in submit_commands waits for the registry, held by a thread in map_memory
\* that waits for the Transfer counter to reach the value of the buffer's last use.
C14_SubmitBehindGpuWaitReached ==
    \E t, u \in Threads :
        /\ pc[t].op = "submit_commands"
        /\ pc[t].at = "lock"
        /\ pc[t].n = 1
        /\ pc[u].op = "map_memory"
        /\ WaitsForGpu(u)
        /\ locks["resource_state"].writer = u
        /\ counter["Transfer"] = 0

-----------------------------------------------------------------------------
(* C20                                                                     *)

\* C20: map_memory of a buffer whose memory the CPU cannot see returns NotMapable, and
\* does not panic.
C20_NotMapableReturned ==
    (last_map # <<>> /\ MemoryUsage(last_map[1].buffer) = "GpuOnly")
        => (last_map[1].result = "NotMapable" /\ ~panicked)

\* map_memory of the GpuOnly buffer has panicked.
C20_MapOfGpuOnlyPanicsReached ==
    /\ last_map # <<>>
    /\ last_map[1].buffer = "b3"
    /\ last_map[1].result = "panic"
    /\ panicked

-----------------------------------------------------------------------------
(* C15, C16, C17                                                           *)

\* C15: every submission with a surface image as color attachment of a render pass gives
\* queue.submit a binary wait on the image's `available` semaphore at
\* COLOR_ATTACHMENT_OUTPUT and a binary signal of its `presentable` semaphore, and sets the
\* image's drawn flag; an image is undrawn when acquired, and a drawn image is undrawn
\* again only as a newly acquired one.
C15_SurfaceSubmissionSemaphores ==
    [][/\ (last' # last /\ ~panicked') =>
              \A i \in SurfaceImagesIn(last'[1].commands) :
                  /\ [semaphore |-> SurfaceSemaphores(i).available, value |-> 0,
                      stage |-> {"COLOR_ATTACHMENT_OUTPUT"}] \in last'[1].native.waits
                  /\ \E k \in DOMAIN last'[1].native.signals :
                         last'[1].native.signals[k].semaphore =
                             SurfaceSemaphores(i).presentable
                  /\ used'[i]
       /\ \A i \in SurfaceImages :
              /\ (i \notin acquired /\ i \in acquired') => ~used'[i]
              /\ (used[i] /\ ~used'[i]) => (i \notin acquired /\ i \in acquired')]_vars

\* A surface image was drawn to, presented, acquired again and drawn to again.
C15_DrawnAfterReacquireReached ==
    /\ last # <<>>
    /\ SurfaceImagesIn(last[1].commands) = {"s1"}
    /\ hist.submits["Main"] = 2
    /\ used["s1"]
    /\ last_surface # <<>>
    /\ last_surface[1].op = "acquire_image"

\* C16: present_image returns BadImage for an image of another surface, NoRender for an
\* undrawn image of the surface, in both cases queues nothing and hands the image back;
\* for a drawn image of the surface it queues a present that waits on `presentable` and
\* returns Ok or Invalidated.
C16_PresentResults ==
    (last_surface # <<>> /\ last_surface[1].op = "present_image") =>
        LET p == last_surface[1]
        IN  /\ SurfaceOf(p.image) # p.surface => p.result = "BadImage"
            /\ (SurfaceOf(p.image) = p.surface /\ ~p.drawn) => p.result = "NoRender"
            /\ p.result \in {"BadImage", "NoRender"} =>
                   (p.image \in acquired /\ p.wait_semaphores = {})
            /\ (SurfaceOf(p.image) = p.surface /\ p.drawn) =>
                   /\ p.result \in {"Ok", "Invalidated"}
                   /\ p.wait_semaphores = {SurfaceSemaphores(p.image).presentable}

\* present_image of a drawn image of the surface has panicked: another thread was in
\* submit_commands, holding the present queue.
C16_PresentPanicsReached ==
    /\ last_surface # <<>>
    /\ last_surface[1].op = "present_image"
    /\ last_surface[1].result = "panic"
    /\ last_surface[1].drawn
    /\ \E t \in Threads : pc[t].op = "submit_commands" /\ locks["present"].writer = t

\* C17: update_surface of a surface with an acquired image outstanding returns
\* ImagePending and leaves the surface and the framebuffer cache as they were.
C17_UpdateRefusedWhileImageOutstanding ==
    (/\ last_surface # <<>>
     /\ last_surface[1].op = "update_surface"
     /\ last_surface[1].outstanding # {})
        => /\ last_surface[1].result = "ImagePending"
           /\ surfaces[last_surface[1].surface] = last_surface[1].before

\* update_surface has recreated the swapchain of a surface whose image is still held by
\* the frontend.
C17_UpdatedWithImageOutstandingReached ==
    /\ last_surface # <<>>
    /\ last_surface[1].op = "update_surface"
    /\ last_surface[1].outstanding = {"s1"}
    /\ last_surface[1].result = "Ok"
    /\ "s1" \in acquired
    /\ surfaces["w1"].swapchain = last_surface[1].before.swapchain + 1

-----------------------------------------------------------------------------
(* C18                                                                     *)

\* C18: once the backend has been dropped, nothing is left pending in the collector: the
\* final sweep has destroyed every garbage item sent, buffer garbage whose reference
\* counter had more than one holder included.
C18_FinalSweepDestroysEverything == ~alive => (to_destroy = <<>> /\ channel = <<>>)

\* The backend has been dropped and the garbage of a buffer that was bound in a dropped
\* descriptor set is still pending: at the final sweep its counter had two holders.
C18_BufferPendingAfterShutdownReached ==
    /\ ~alive
    /\ \E i \in DOMAIN to_destroy : to_destroy[i].garbage = GarbageBuffer("b1")
    /\ "b1" \notin DOMAIN destroyed
    /\ \A queue \in QueueTypes : counter[queue] = queues[queue].target_value

-----------------------------------------------------------------------------
(* C19                                                                     *)

\* C19: when an update replaces a texture binding of a set, the old image view is
\* destroyed only once the counter of the queue of the last submission that bound the set
\* has reached that submission's target value.
C19_OldViewDestroyedAfterUse ==
    (/\ last_update # <<>>
     /\ last_update[1].destroyed_view # <<>>
     /\ last_update[1].bound_in # <<>>)
        => last_update[1].counters[last_update[1].bound_in[1].queue]
               >= last_update[1].bound_in[1].timeline_value

\* An update has destroyed the view of texture t1 bound in ds2 while the Main queue has
\* not finished the render pass that bound ds2.
C19_ViewDestroyedInUseReached ==
    /\ last_update # <<>>
    /\ last_update[1].set = "ds2"
    /\ last_update[1].destroyed_view = <<"t1">>
    /\ last_update[1].bound_in = <<QueueUsage("Main", 1)>>
    /\ last_update[1].counters["Main"] = 0
    /\ last_update[1].waited = <<>>

\* The barrier scope sc recorded for sub-resource r, if any.
BarriersOf(sc, r) ==
    IF sc.barrier = <<>> THEN {}
    ELSE IF r.kind = "Buffer"
    THEN {b \in sc.barrier[1].buffer_barriers : b.buffer = r.h /\ b.array_elem = r.elem}
    ELSE ImageBarriersOf(sc, r)

\* The layout PipelineTracker::submit compares the requested layout with: the layout the
\* registry stores for an image, UNDEFINED for a buffer.
PreviousLayout(sc, r) == IF r.kind = "Buffer" THEN "UNDEFINED" ELSE RegistryLayout(sc, r)

\* Sub-resource r has an earlier usage in the submission of scope sc, and that usage and
\* the one of sc are both made of read accesses only.
ReadAfterRead(sc, r) ==
    /\ sc.usages_before[r].access \subseteq read_accesses
    /\ sc.usages[r].access \subseteq read_accesses

\* C23: PipelineTracker::submit records a barrier for a sub-resource of the scope if and
\* only if the registry layout differs from the requested layout, or the sub-resource has
\* an earlier usage in the same submission and the two usages are not both made of read
\* accesses only; a mask that combines a read with a write bit counts as a write.
C23_BarrierIffLayoutOrNotReadAfterRead ==
    last # <<>> =>
        \A k \in DOMAIN last[1].scopes : \A r \in DOMAIN last[1].scopes[k].usages :
            (BarriersOf(last[1].scopes[k], r) # {}) <=>
                \/ PreviousLayout(last[1].scopes[k], r) # last[1].scopes[k].usages[r].layout
                \/ /\ r \in DOMAIN last[1].scopes[k].usages_before
                   /\ ~ReadAfterRead(last[1].scopes[k], r)

\* One submission reads an image twice in the same layout, or binds a vertex buffer in
\* two render passes, without a barrier, and a second use of an attachment (read and
\* write bits) or a read after a write gets one.
C23_ReadAfterReadReached ==
    /\ last # <<>>
    /\ \E k \in DOMAIN last[1].scopes : \E r \in DOMAIN last[1].scopes[k].usages :
           /\ r \in DOMAIN last[1].scopes[k].usages_before
           /\ ReadAfterRead(last[1].scopes[k], r)
           /\ last[1].scopes[k].usages[r].access # {}
           /\ BarriersOf(last[1].scopes[k], r) = {}
    /\ \E k \in DOMAIN last[1].scopes : \E r \in DOMAIN last[1].scopes[k].usages :
           /\ r \in DOMAIN last[1].scopes[k].usages_before
           /\ PreviousLayout(last[1].scopes[k], r) = last[1].scopes[k].usages[r].layout
           /\ last[1].scopes[k].usages[r].access \cap read_accesses # {}
           /\ ~(last[1].scopes[k].usages[r].access \subseteq read_accesses)
           /\ BarriersOf(last[1].scopes[k], r) # {}


\* The scope of submission sub that hands sub-resource r over: the first one that uses r.
HandoffScope(sub, r) ==
    CHOOSE k \in DOMAIN sub.scopes :
        /\ r \in DOMAIN sub.scopes[k].usages
        /\ \A j \in 1..(k - 1) : r \notin DOMAIN sub.scopes[j].usages

\* The sub-resources submission sub takes over from `queue`.
HandedOffFrom(sub, queue) ==
    {r \in CrossQueueUses(sub) : RegistryUsage(sub.registry_before, r)[1].queue = queue}

\* The ranks of the stages in the masks with which sub takes sub-resources over from `queue`.
HandoffRanks(sub, queue) ==
    {rank_pipeline_stage({st}) :
        st \in UNION {sub.scopes[HandoffScope(sub, r)].usages[r].stage :
                         r \in HandedOffFrom(sub, queue)}}

\* C24: for every source queue other than the submitting one, the stage the tracker
\* reports in wait_queues is the stage of minimum rank among all stages in the stage masks
\* of the sub-resources handed off from that queue in the submission.
C24_WaitStageIsMinimumRank ==
    last # <<>> =>
        \A q \in QueueTypes \ {last[1].queue} :
            HandedOffFrom(last[1], q) # {} =>
                /\ q \in DOMAIN last[1].wait_queues
                /\ \A x \in HandoffRanks(last[1], q) :
                       rank_pipeline_stage(last[1].wait_queues[q]) <= x
                /\ rank_pipeline_stage(last[1].wait_queues[q]) \in HandoffRanks(last[1], q)

\* A depth attachment last written on Transfer is used by a render pass on Main at
\* EARLY_FRAGMENT_TESTS | LATE_FRAGMENT_TESTS and the tracker reports LATE_FRAGMENT_TESTS.
C24_DepthWaitsAtLateTestsReached ==
    /\ last # <<>>
    /\ last[1].queue = "Main"
    /\ HandedOffFrom(last[1], "Transfer") = {TextureSub("d1", "DEPTH", 0, 0)}
    /\ last[1].scopes[1].usages[TextureSub("d1", "DEPTH", 0, 0)].stage =
           {"EARLY_FRAGMENT_TESTS", "LATE_FRAGMENT_TESTS"}
    /\ last[1].wait_queues = [q \in {"Transfer"} |-> {"LATE_FRAGMENT_TESTS"}]


\* The queue types a recording call is permitted on.
Permitted(kind, queue_ty) ==
    CASE kind = "render_pass" -> queue_ty = "Main"
      [] kind = "compute_pass" -> queue_ty \in {"Main", "Compute"}
      [] OTHER -> queue_ty \in {"Main", "Transfer"}

\* Command c names a buffer or a texture.
ReferencesResource(c) ==
    c.op \in {"CopyBufferToBuffer", "CopyBufferToTexture", "CopyTextureToBuffer",
              "BindVertexBuffers", "BindIndexBuffer", "BindDescriptorSets"}

\* C22: a render pass recorded on a queue other than Main, a compute pass on a queue other
\* than Main or Compute and a copy on a queue other than Main or Transfer fail at record
\* time with the command list as it was; on the permitted queue types recording does not
\* fail and appends its commands; so no command list submitted to the Present queue
\* contains a command that references a buffer or a texture.
C22_RecordingChecksQueueType ==
    /\ \A i \in DOMAIN cb.attempt :
           IF Permitted(cb.attempt[i].kind, cb.queue_ty)
           THEN /\ ~cb.attempt[i].panicked
                /\ Len(cb.attempt[i].after) > Len(cb.attempt[i].before)
                /\ SubSeq(cb.attempt[i].after, 1, Len(cb.attempt[i].before)) =
                       cb.attempt[i].before
           ELSE /\ cb.attempt[i].panicked
                /\ cb.attempt[i].after = cb.attempt[i].before
    /\ (last # <<>> /\ last[1].queue = "Present") =>
           \A i \in DOMAIN last[1].commands : ~ReferencesResource(last[1].commands[i])

\* A command buffer of the Transfer queue took a copy and then refused a render pass, and
\* the Present queue has been submitted to.
C22_RefusedAfterRecordedReached ==
    /\ cb.queue_ty = "Transfer"
    /\ Len(cb.attempt) = 2
    /\ ~cb.attempt[1].panicked
    /\ cb.attempt[2].kind = "render_pass"
    /\ cb.attempt[2].panicked
    /\ cb.attempt[2].before # <<>>
    /\ last # <<>>
    /\ last[1].queue = "Present"


\* C21: wait_on and poll_status return Complete if and only if the semaphore counter of
\* the job's queue is >= the job's target value when the result is produced, and Running
\* otherwise, whether or not the queue's target value has advanced past the job's.
C21_JobStatusFollowsCounter ==
    last_job # <<>> =>
        last_job[1].result =
            IF last_job[1].counter >= last_job[1].job.target_value THEN "Complete"
            ELSE "Running"

\* poll_status on a job the GPU has finished, on a queue that has since taken another
\* submission, ends in the panic of todo!().
C21_PollOfFinishedJobPanicsReached ==
    /\ last_job # <<>>
    /\ last_job[1].op = "poll_status"
    /\ last_job[1].counter >= last_job[1].job.target_value
    /\ last_job[1].target > last_job[1].job.target_value
    /\ last_job[1].result = "panic"
    /\ panicked


\* The list a sweep works on: the pending items, then the garbage it receives, stamped
\* with the targets passed to the sweep.
SweepList ==
    to_destroy \o [i \in 1..Len(channel) |-> [garbage |-> channel[i], values |-> TargetValues]]

\* Item e of the list all is due in a sweep with the counters `current`.
Due(e, all, current) ==
    /\ e.values.main <= current.main
    /\ e.values.transfer <= current.transfer
    /\ e.values.compute <= current.compute
    /\ e.garbage.kind = "Buffer" =>
           strong_count(e.garbage.buffer, [j \in DOMAIN all |-> all[j].garbage]) = 1

NotDue(e) == ~Due(e, SweepList, CurrentValues)

\* C25: a sweep stamps the garbage it receives with the targets, destroys exactly the
\* pending items whose stamp is <= the counters of main, transfer and compute (for a
\* buffer: whose reference counter is the last one), each once, and leaves every other
\* item in the list with its stamp and in its relative order.
C25_SweepDestroysExactlyTheDue ==
    [][hist'.calls # hist.calls =>
          /\ to_destroy' = SelectSeq(SweepList, NotDue)
          /\ DOMAIN destroyed' \ DOMAIN destroyed =
                 {SweepList[i].garbage.buffer :
                     i \in {j \in DOMAIN SweepList : ~NotDue(SweepList[j])}}
          /\ \A i \in DOMAIN SweepList :
                 /\ SweepList[i].garbage.buffer \notin DOMAIN destroyed
                 /\ \A j \in DOMAIN SweepList :
                        SweepList[j].garbage = SweepList[i].garbage => j = i
          /\ \A b \in DOMAIN destroyed : destroyed'[b] = destroyed[b]]_vars

\* A buffer stamped with a target the counters had not reached survived the sweep that
\* received it and was destroyed by a later sweep, with strong count 1, while another
\* item is still pending.
C25_SurvivedThenDestroyedReached ==
    /\ \E b \in DOMAIN destroyed :
           /\ destroyed[b].pending_before
           /\ destroyed[b].strong = 1
           /\ destroyed[b].at_drop.transfer > 0
    /\ to_destroy # <<>>


\* The index of the first EndRenderPass after command i.
RECURSIVE EndOfPass(_, _)
EndOfPass(commands, i) ==
    IF i > Len(commands) \/ commands[i].op = "EndRenderPass" THEN i
    ELSE EndOfPass(commands, i + 1)

\* The buffers and images a descriptor set with the binding elements `elems` refers to.
HandlesOfSet(elems) ==
    {IF elems[j][1].value.kind = "Texture" THEN elems[j][1].value.image
     ELSE elems[j][1].value.buffer : j \in {k \in DOMAIN elems : elems[k] # <<>>}}

\* The buffers and images command c binds, the sets bound as in `bindings`.
HandlesBoundBy(bindings, c) ==
    CASE c.op = "BindVertexBuffers" -> {c.binds[j].buffer : j \in DOMAIN c.binds}
      [] c.op = "BindIndexBuffer" -> {c.buffer}
      [] c.op = "BindDescriptorSets" ->
             UNION {HandlesOfSet(bindings[c.sets[j]]) : j \in DOMAIN c.sets}
      [] OTHER -> {}

\* The resources of the render pass that begins at index i: its attachments and what is
\* bound between i and the first EndRenderPass after i.
PassHandles(bindings, commands, i) ==
    {commands[i].color_attachments[j].image : j \in DOMAIN commands[i].color_attachments}
    \cup {commands[i].depth_stencil_attachment[j].image :
             j \in DOMAIN commands[i].depth_stencil_attachment}
    \cup UNION {HandlesBoundBy(bindings, commands[j]) :
                   j \in (i + 1)..(EndOfPass(commands, i) - 1)}

\* The scopes track_render_pass built in submission sub hold the resources of their pass.
TrackedScopesArePassLocal(sub) ==
    \A k \in DOMAIN sub.scopes :
        sub.commands[sub.scopes[k].index].op = "BeginRenderPass" =>
            {r.h : r \in DOMAIN sub.scopes[k].usages} =
                PassHandles(sub.bound_before, sub.commands, sub.scopes[k].index)

\* The resources find_render_pass_resources collected for the passes of submission sub
\* are the resources of their pass.
BarrierChecksArePassLocal(sub) ==
    \A i \in DOMAIN sub.barrier_checks :
        {sub.barrier_checks[i].buffers[j].buffer : j \in DOMAIN sub.barrier_checks[i].buffers}
        \cup {sub.barrier_checks[i].images[j].image :
                 j \in DOMAIN sub.barrier_checks[i].images}
        = PassHandles(sub.bound_before, sub.commands, i)

\* C26: for every BeginRenderPass at index i of a command list, also a second or later
\* one, the usage scope built for it by track_render_pass and by
\* find_render_pass_resources consists of the attachments of the pass and exactly the
\* buffers and descriptor sets bound between i and the first EndRenderPass after i.
C26_RenderPassScopeIsPassLocal ==
    last # <<>> => TrackedScopesArePassLocal(last[1]) /\ BarrierChecksArePassLocal(last[1])

\* The second render pass of a submission binds nothing, and the resources collected
\* for it hold the vertex buffer of the first pass.
C26_SecondPassTakesFirstPassBindsReached ==
    /\ last # <<>>
    /\ \E i \in DOMAIN last[1].barrier_checks :
           /\ i > 1
           /\ last[1].commands[i + 1].op = "EndRenderPass"
           /\ \E j \in DOMAIN last[1].barrier_checks[i].buffers :
                  last[1].barrier_checks[i].buffers[j].buffer = "b1"
    /\ TrackedScopesArePassLocal(last[1])


\* The index of the BeginComputePass of the pass command i lies in.
RECURSIVE StartOfPass(_, _)
StartOfPass(commands, i) ==
    IF i < 1 \/ commands[i].op = "BeginComputePass" THEN i ELSE StartOfPass(commands, i - 1)

\* The commands of kind op recorded in the pass of command i before i.
EarlierInPass(commands, i, op) ==
    {j \in (StartOfPass(commands, i) + 1)..(i - 1) : commands[j].op = op}

Latest(S) == CHOOSE j \in S : \A k \in S : k <= j

\* The BindDescriptorSets commands before i in its pass that bind a set to `slot`.
BindsOfSlot(commands, i, slot) ==
    {j \in EarlierInPass(commands, i, "BindDescriptorSets") :
        slot \in commands[j].first..(commands[j].first + Len(commands[j].sets) - 1)}

\* The sets a dispatch at index i uses: per slot of the pipeline bound last, the set
\* bound last to the slot.
SetsOfDispatch(commands, i) ==
    {commands[Latest(BindsOfSlot(commands, i, slot))].sets[
         slot - commands[Latest(BindsOfSlot(commands, i, slot))].first + 1] :
        slot \in {sl \in 0..(commands[Latest(EarlierInPass(commands, i,
                                                            "BindComputePipeline"))].layouts - 1) :
                     BindsOfSlot(commands, i, sl) # {}}}

\* The scopes submission sub tracked for the command at index i.
ScopesAt(sub, i) == {k \in DOMAIN sub.scopes : sub.scopes[k].index = i}

\* C27: a Dispatch with no BindComputePipeline before it in its pass tracks nothing;
\* otherwise its scope holds, for every slot of the pipeline bound last to which a set
\* was bound earlier in the pass, the resources of the set bound last to that slot, and
\* those of no other set.
C27_DispatchTracksBoundSets ==
    last # <<>> =>
        \A i \in {j \in DOMAIN last[1].commands : last[1].commands[j].op = "Dispatch"} :
            IF EarlierInPass(last[1].commands, i, "BindComputePipeline") = {}
            THEN ScopesAt(last[1], i) = {}
            ELSE UNION {{r.h : r \in DOMAIN last[1].scopes[k].usages} :
                           k \in ScopesAt(last[1], i)}
                 = UNION {HandlesOfSet(last[1].bound_before[set]) :
                             set \in SetsOfDispatch(last[1].commands, i)}

\* A dispatch whose set was bound before the pipeline of the pass: the set refers to a
\* buffer and the scope of the dispatch is empty.
C27_SetBoundBeforePipelineReached ==
    /\ last # <<>>
    /\ last[1].commands =
           ComputePass(BindDescriptorSets("ds1") \o BindComputePipeline \o Dispatch)
    /\ HandlesOfSet(last[1].bound_before["ds1"]) = {"b1"}
    /\ \A k \in ScopesAt(last[1], 4) : DOMAIN last[1].scopes[k].usages = {}


-----------------------------------------------------------------------------
(* C28                                                                     *)

\* C28: map_memory returns only once the counter of the queue that used the element
\* last has reached the value of that usage, through the wait of the device when the
\* queue still targets that value and through the spin loop when it has advanced; the
\* element has no registry entry afterwards, and a call that found none did not wait.
C28_MapReturnsAfterLastUse ==
    last_map # <<>> =>
        /\ last_map[1].entry = <<>>
        /\ IF last_map[1].old = <<>>
           THEN last_map[1].branch = "none"
           ELSE /\ last_map[1].branch \in {"wait_semaphores", "spin"}
                /\ last_map[1].counters[last_map[1].old[1].queue]
                       >= last_map[1].old[1].timeline_value

\* A map_memory that returned through the spin loop: the transfer queue had taken a
\* later submission when the buffer was mapped.
C28_MapSpunOnAdvancedQueueReached ==
    /\ last_map # <<>>
    /\ last_map[1].old # <<>>
    /\ last_map[1].branch = "spin"
    /\ target_timeline_value(queues["Transfer"]) > last_map[1].old[1].timeline_value
    /\ counter["Transfer"] >= last_map[1].old[1].timeline_value

-----------------------------------------------------------------------------
(* C29, C30                                                                *)

\* The calls of FramebufferCache::get in the log.
Gets == {i \in DOMAIN cache_log : cache_log[i].op = "get"}

\* The calls before i that asked for the pass and the image list of call i.
SameGetBefore(i) ==
    {j \in Gets : j < i /\ cache_log[j].pass = cache_log[i].pass
                         /\ cache_log[j].images = cache_log[i].images}

\* A view of the list of call i was reported destroyed between calls j and i.
DestroyedBetween(j, i) ==
    \E k \in (j + 1)..(i - 1) :
        /\ cache_log[k].op = "view_destroyed"
        /\ cache_log[k].images[1] \in Range(cache_log[i].images)

Cached == UNION {{<<p, key>> : key \in DOMAIN framebuffers.pass_to_framebuffers[p].framebuffers} :
                    p \in DOMAIN framebuffers.pass_to_framebuffers}

CachedFramebuffers == {framebuffers.pass_to_framebuffers[e[1]].framebuffers[e[2]] : e \in Cached}

\* C29: get returns the framebuffer of the previous get of the same pass and image
\* list unless a view of the list was reported destroyed in between, and a new one then;
\* after view_destroyed(v) no cached key contains v; a framebuffer that left the cache
\* was destroyed exactly once; the reverse index of a view holds every pass with a
\* cached framebuffer on the view.
C29_FramebufferCacheFollowsViews ==
    /\ \A i \in Gets :
           IF SameGetBefore(i) # {} /\ ~DestroyedBetween(Latest(SameGetBefore(i)), i)
           THEN cache_log[i].framebuffer = cache_log[Latest(SameGetBefore(i))].framebuffer
           ELSE \A j \in Gets : j < i => cache_log[j].framebuffer # cache_log[i].framebuffer
    /\ (cache_log # <<>> /\ cache_log[Len(cache_log)].op = "view_destroyed")
           => \A e \in Cached : cache_log[Len(cache_log)].images[1] \notin Range(e[2])
    /\ \A i \in Gets :
           IF cache_log[i].framebuffer \in CachedFramebuffers
           THEN cache_log[i].framebuffer \notin DOMAIN framebuffers.destroyed
           ELSE Lookup(framebuffers.destroyed, cache_log[i].framebuffer) = <<1>>
    /\ \A e \in Cached : \A w \in Range(e[2]) :
           /\ w \in DOMAIN framebuffers.image_to_pass
           /\ e[1] \in framebuffers.image_to_pass[w]

\* The second view of a framebuffer was reported destroyed and the framebuffer asked
\* for again: the first one is destroyed, a second one is cached.
C29_RecreatedAfterViewDestroyedReached ==
    /\ Len(cache_log) = 3
    /\ cache_log[1] = [op |-> "get", pass |-> 1, images |-> <<"v1", "v2">>, framebuffer |-> 1]
    /\ cache_log[2].op = "view_destroyed"
    /\ cache_log[2].images = <<"v2">>
    /\ cache_log[3] = [op |-> "get", pass |-> 1, images |-> <<"v1", "v2">>, framebuffer |-> 2]
    /\ Lookup(framebuffers.destroyed, 1) = <<1>>
    /\ CachedFramebuffers = {2}

\* The (format, load_op, store_op) of every attachment of a descriptor, the depth-stencil
\* attachment last.
AttachmentTuples(descriptor) ==
    [i \in DOMAIN descriptor.color_attachments |-> VkAttachment(descriptor.color_attachments[i])]
    \o [i \in DOMAIN descriptor.depth_stencil_attachment |->
           VkAttachment(descriptor.depth_stencil_attachment[i])]

\* C30: two calls of RenderPassCache::get return the same native render pass exactly
\* when their descriptors agree on the (format, load_op, store_op) of every attachment,
\* the depth-stencil attachment included.
C30_SamePassIffSameAttachments ==
    \A i, j \in DOMAIN cache_log :
        (cache_log[i].pass = cache_log[j].pass)
            <=> (AttachmentTuples(cache_log[i].descriptor)
                    = AttachmentTuples(cache_log[j].descriptor))

\* A descriptor with a depth-stencil attachment was given the render pass created for a
\* descriptor without one.
C30_DepthPassSharedReached ==
    /\ Len(cache_log) = 2
    /\ cache_log[1].descriptor.depth_stencil_attachment = <<>>
    /\ cache_log[2].descriptor.depth_stencil_attachment # <<>>
    /\ cache_log[1].descriptor.color_attachments = cache_log[2].descriptor.color_attachments
    /\ cache_log[1].pass = cache_log[2].pass
    /\ render_passes.created = 1

-----------------------------------------------------------------------------
(* C31                                                                     *)

\* The scopes of submission sub before scope k that read r, with no write of r between
\* them and k.
ReadsBefore(sub, k, r) ==
    {j \in 1..(k - 1) :
        /\ r \in DOMAIN sub.scopes[j].usages
        /\ \A m \in j..(k - 1) :
               r \in DOMAIN sub.scopes[m].usages
                   => sub.scopes[m].usages[r].access \subseteq read_accesses}

\* Scope k writes r after two or more reads at different stages, of which only the
\* first one had a barrier for r.
WriteAfterReads(sub, k, r) ==
    /\ ~(sub.scopes[k].usages[r].access \subseteq read_accesses)
    /\ \E i, j \in ReadsBefore(sub, k, r) :
           sub.scopes[i].usages[r].stage # sub.scopes[j].usages[r].stage
    /\ \A j \in ReadsBefore(sub, k, r) :
           (\E i \in ReadsBefore(sub, k, r) : i < j) => BarriersOf(sub.scopes[j], r) = {}

\* C31: the barrier before a write that follows two or more reads of different stages
\* which needed no barrier among themselves has the stage of every one of the reads in
\* its source stage mask and the access of every one in the source access mask.
C31_WriteBarrierCoversEveryRead ==
    last # <<>> =>
        \A k \in DOMAIN last[1].scopes : \A r \in DOMAIN last[1].scopes[k].usages :
            WriteAfterReads(last[1], k, r) =>
                /\ BarriersOf(last[1].scopes[k], r) # {}
                /\ \A j \in ReadsBefore(last[1], k, r) :
                       /\ last[1].scopes[j].usages[r].stage
                              \subseteq last[1].scopes[k].barrier[1].src_stage
                       /\ \A b \in BarriersOf(last[1].scopes[k], r) :
                              last[1].scopes[j].usages[r].access \subseteq b.src_access_mask

\* A buffer bound as a vertex buffer, then read by a copy, then written by a copy: the
\* barrier before the write names the transfer stage only.
C31_VertexReadLeftOutReached ==
    /\ last # <<>>
    /\ last[1].commands =
           RenderPass(SurfaceAttachment("s1", "Clear"), BindVertexBuffers("b1") \o Draw)
           \o CopyBufferToTexture("b1", "t1") \o CopyTextureToBuffer("b1", "t1")
    /\ Len(last[1].scopes) = 3
    /\ WriteAfterReads(last[1], 3, BufferSub("b1", 0))
    /\ last[1].scopes[3].barrier # <<>>
    /\ last[1].scopes[3].barrier[1].src_stage = {"TRANSFER"}
    /\ last[1].scopes[1].usages[BufferSub("b1", 0)].stage = {"VERTEX_INPUT"}

-----------------------------------------------------------------------------
(* C32                                                                     *)

\* Every timeline wait of the latest native submission names a value the waited-on queue
\* had been given before the call; the wait on the own semaphore names the own target.
WaitsOnGivenValues ==
    last # <<>> =>
        \A w \in last[1].native.waits :
            w.semaphore[1] = "timeline" =>
                /\ w.value <= last[1].targets_before[w.semaphore[2]]
                /\ w.semaphore[2] = last[1].queue => w.value = last[1].target_before

\* Every job handed out is complete at some later point.
JobsComplete ==
    \A ty \in {"Main", "Transfer", "Compute"} : \A v \in 1..MaxFairSubmits :
        (queues[ty].target_value >= v) ~> JobComplete(counter[ty], v)

\* C32: every timeline wait names a value given by an earlier submit call, and under a
\* fair GPU the counter of each queue reaches every target the queue is given: every job
\* becomes complete.
C32_WaitsAreOnEarlierSubmissions == []WaitsOnGivenValues /\ JobsComplete

\* Three submissions that wait for each other in a chain have all finished.
C32_ChainOfQueuesFinishedReached ==
    /\ last # <<>>
    /\ last[1].queue = "Compute"
    /\ \E w \in last[1].native.waits :
           w.semaphore = TimelineSemaphore("Main") /\ w.value = 1
    /\ \A ty \in {"Main", "Transfer", "Compute"} :
           queues[ty].target_value = 1 /\ counter[ty] = 1

-----------------------------------------------------------------------------
(* C33                                                                     *)

\* The registry entries keyed by the native handle of a buffer.
EntriesOf(buffer) == {key \in DOMAIN resource_state.buffers : key[1] = buffer}

\* C33: the registry holds no entry keyed by the handle of a buffer the garbage collector
\* has destroyed.
C33_NoEntryForDestroyed ==
    \A buffer \in DOMAIN destroyed : EntriesOf(buffer) = {}

\* Buffer b1 was used by a submission, dropped and destroyed by a later sweep; the
\* registry still names the queue and the value of its last use.
C33_EntryOutlivesBufferReached ==
    /\ "b1" \in DOMAIN destroyed
    /\ "b1" \notin live
    /\ EntriesOf("b1") = {<<"b1", 0>>}
    /\ counter[resource_state.buffers[<<"b1", 0>>].queue]
           >= resource_state.buffers[<<"b1", 0>>].timeline_value

-----------------------------------------------------------------------------
(* C34                                                                     *)

\* The native submission waits on `available` of the image or signals its `presentable`.
UsesSurfaceSemaphores(native, image) ==
    \/ \E w \in native.waits : w.semaphore = SurfaceSemaphores(image).available
    \/ \E k \in DOMAIN native.signals :
           native.signals[k].semaphore = SurfaceSemaphores(image).presentable

\* C34: between the acquire of a surface image and its present at most one native
\* submission waits on its `available` semaphore and signals its `presentable`
\* semaphore: a submission that does finds the image not drawn to since the acquire.
C34_OneSubmissionPerAcquire ==
    [][(last' # last /\ ~panicked') =>
           \A i \in SurfaceImages : UsesSurfaceSemaphores(last'[1].native, i) => ~used[i]]_vars

\* Two submissions drew to the image after one acquire: both are queued with a wait on
\* `available`, which the acquire signalled once.
C34_TwoWaitsOnAvailableReached ==
    /\ Len(gpu["Main"]) = 2
    /\ \A k \in 1..2 :
           /\ ~gpu["Main"][k].started
           /\ \E w \in gpu["Main"][k].native.waits :
                  w.semaphore = SurfaceSemaphores("s1").available
    /\ "s1" \in acquired
    /\ ~panicked

-----------------------------------------------------------------------------
(* C35                                                                     *)

\* The positions of a semaphore in the signal list of a native submission.
SignalsOf(native, semaphore) ==
    {k \in DOMAIN native.signals : native.signals[k].semaphore = semaphore}

\* C35: in the native submission VkQueue::submit builds no semaphore is listed twice
\* among the signals or twice among the waits, the own timeline semaphore included; a
\* binary semaphore is paired with the value 0, and the own semaphore with the new target.
C35_SemaphoresListedOnce ==
    last # <<>> =>
        /\ \A k \in DOMAIN last[1].native.signals :
               /\ SignalsOf(last[1].native, last[1].native.signals[k].semaphore) = {k}
               /\ last[1].native.signals[k].semaphore[1] # "timeline"
                      => last[1].native.signals[k].value = 0
               /\ last[1].native.signals[k].semaphore = TimelineSemaphore(last[1].queue)
                      => last[1].native.signals[k].value = last[1].next_target_value
        /\ \A w \in last[1].native.waits :
               /\ \A x \in last[1].native.waits : x.semaphore = w.semaphore => x = w
               /\ w.semaphore[1] # "timeline" => w.value = 0

\* The first submission on the main queue, with a render pass on a surface image: the
\* signal list names the queue's timeline semaphore twice and `presentable` once.
C35_OwnSemaphoreSignalledTwiceReached ==
    /\ last # <<>>
    /\ last[1].queue = "Main"
    /\ Len(last[1].native.signals) = 3
    /\ 1 \in SignalsOf(last[1].native, TimelineSemaphore("Main"))
    /\ Cardinality(SignalsOf(last[1].native, TimelineSemaphore("Main"))) = 2
    /\ Cardinality(SignalsOf(last[1].native, SurfaceSemaphores("s1").presentable)) = 1
    /\ \A k \in SignalsOf(last[1].native, TimelineSemaphore("Main")) :
           last[1].native.signals[k].value = last[1].next_target_value

-----------------------------------------------------------------------------
(* C36                                                                     *)

\* The images submission sub takes over from another queue with a layout transition in
\* the scope that uses them first.
TransitionedHandoffs(sub) ==
    {r \in CrossQueueUses(sub) :
        /\ r.kind = "Texture"
        /\ \E b \in ImageBarriersOf(sub.scopes[HandoffScope(sub, r)], r) :
               b.old_layout # b.new_layout}

\* C36: the pipeline barrier that transitions an image last used on another queue has the
\* stage at which the submission waits on that queue's semaphore in its source stage
\* mask.
C36_TransitionAfterQueueWait ==
    last # <<>> =>
        \A r \in TransitionedHandoffs(last[1]) :
            \A w \in TimelineWaits(last[1].native,
                                   RegistryUsage(last[1].registry_before, r)[1].queue) :
                w.stage \subseteq last[1].scopes[HandoffScope(last[1], r)].barrier[1].src_stage

\* The depth texture was written by a copy on the transfer queue and is the depth
\* attachment of a render pass on the main queue: the wait on the transfer queue is at
\* a fragment-test stage, the source stage of the transition is TOP_OF_PIPE.
C36_TransitionFromTopOfPipeReached ==
    /\ last # <<>>
    /\ last[1].queue = "Main"
    /\ TextureSub("d1", "DEPTH", 0, 0) \in TransitionedHandoffs(last[1])
    /\ last[1].scopes[HandoffScope(last[1], TextureSub("d1", "DEPTH", 0, 0))].barrier[1].src_stage
           = {"TOP_OF_PIPE"}
    /\ \E w \in TimelineWaits(last[1].native, "Transfer") :
           w.stage \cap {"EARLY_FRAGMENT_TESTS", "LATE_FRAGMENT_TESTS"} # {}

-----------------------------------------------------------------------------
(* C37                                                                     *)

\* How many of the first n entries of s have operation op.
Count(s, n, op) == Cardinality({i \in 1..n : s[i].op = op})

\* Entry i of s lies after a BeginRenderPass whose EndRenderPass has not come yet.
InRenderPass(s, i) == Count(s, i - 1, "BeginRenderPass") > Count(s, i - 1, "EndRenderPass")

\* After every prefix of s at most one pass is open, and none is at the end.
Balanced(s) ==
    /\ \A n \in 0..Len(s) :
           /\ Count(s, n, "BeginRenderPass") - Count(s, n, "EndRenderPass") \in {0, 1}
           /\ Count(s, n, "BeginComputePass") - Count(s, n, "EndComputePass") \in {0, 1}
           /\ (Count(s, n, "BeginRenderPass") - Count(s, n, "EndRenderPass"))
                + (Count(s, n, "BeginComputePass") - Count(s, n, "EndComputePass")) \in {0, 1}
    /\ Count(s, Len(s), "BeginRenderPass") = Count(s, Len(s), "EndRenderPass")
    /\ Count(s, Len(s), "BeginComputePass") = Count(s, Len(s), "EndComputePass")

\* C37: the command list of a command buffer has balanced, never nested pass pairs and
\* no copy or dispatch inside a render pass, and the native command buffer recorded
\* from it has no pipeline barrier between cmd_begin_render_pass and
\* cmd_end_render_pass.
C37_NoBarrierInsideRenderPass ==
    /\ Balanced(cb.commands)
    /\ \A i \in DOMAIN cb.commands :
           cb.commands[i].op \in {"CopyBufferToBuffer", "CopyBufferToTexture",
                                  "CopyTextureToBuffer", "Dispatch"}
               => ~InRenderPass(cb.commands, i)
    /\ last # <<>> =>
           /\ Balanced(last[1].stream)
           /\ \A i \in DOMAIN last[1].stream :
                  last[1].stream[i].op = "PipelineBarrier" => ~InRenderPass(last[1].stream, i)

\* A recorded list with a copy into b1 and a render pass that draws from b1 was
\* submitted: the barrier of the pass is the entry before BeginRenderPass, the draw
\* follows inside the pass.
C37_BarrierBeforePassReached ==
    /\ last # <<>>
    /\ last[1].commands = cb.commands
    /\ \E i \in DOMAIN last[1].stream : \E j \in DOMAIN last[1].stream :
           /\ i + 1 < j
           /\ last[1].stream[i].op = "PipelineBarrier"
           /\ last[1].stream[i].barrier.buffer_barriers # {}
           /\ last[1].stream[i + 1].op = "BeginRenderPass"
           /\ last[1].stream[j].op = "Draw"
           /\ InRenderPass(last[1].stream, j)

-----------------------------------------------------------------------------
(* C38                                                                     *)

\* Thread t cannot take the guard it asks for because thread u holds it.
WaitsOn(t, u) ==
    \E g \in GuardWanted(t) : \E h \in Guards(u) :
        h.map = g.map /\ h.key = g.key /\ ~(h.mode = "read" /\ g.mode = "read")

\* C38: a thread in FramebufferCache::get and a thread in view_destroyed never wait for
\* one another's entries, get holding its pass_to_framebuffers entry and asking for the
\* image_to_pass entry, view_destroyed holding that entry and asking for the
\* pass_to_framebuffers entry.
C38_GetAndViewDestroyedFinish ==
    \A t \in Threads : \A u \in Threads \ {t} :
        ~(/\ pc[t].op = "get"
          /\ pc[u].op = "view_destroyed"
          /\ WaitsOn(t, u)
          /\ WaitsOn(u, t))

\* Pass 1 has a framebuffer over v1.  t1 is in get(1, <<v1>>) with the entry of pass 1,
\* asking for the entry of v1; t2 is in view_destroyed(v1) with the entry of v1, asking
\* for the entry of pass 1: no step of either thread is enabled.
C38_GuardsCrossedReached ==
    /\ 1 \in DOMAIN framebuffers.pass_to_framebuffers
    /\ <<"v1">> \in DOMAIN framebuffers.pass_to_framebuffers[1].framebuffers
    /\ pc["t1"].op = "get" /\ pc["t1"].at = "associate" /\ pc["t1"].i = 1
    /\ pc["t1"].pass = 1 /\ pc["t1"].images = <<"v1">>
    /\ pc["t2"].op = "view_destroyed" /\ pc["t2"].at = "passes"
    /\ pc["t2"].image = "v1" /\ pc["t2"].todo = <<1>>
    /\ ~ENABLED GetAssociate("t1")
    /\ ~ENABLED ViewPass("t2")
    /\ ~ENABLED NextGuards

-----------------------------------------------------------------------------
(* C39                                                                     *)

\* The threads that are inside submit_commands with the write lock of the present queue.
SubmittingThreads ==
    {u \in Threads : pc[u].op = "submit_commands" /\ locks["present"].writer = u}

\* C39: a call of present_image made while another thread is inside submit_commands
\* returns Ok, Invalidated or a SurfacePresentFailure value, it does not panic.
C39_PresentBesideSubmitReturns ==
    [][(/\ SubmittingThreads # {}
        /\ last_surface' # last_surface
        /\ last_surface' # <<>>
        /\ last_surface'[1].op = "present_image")
           => /\ last_surface'[1].result \in {"Ok", "Invalidated", "BadImage", "NoRender"}
              /\ panicked' = panicked]_vars

\* A thread is recording its submission to the transfer queue; the present of the drawn
\* image s1 on the other thread has unwound out of try_read().unwrap().
C39_PresentUnwoundBesideSubmitReached ==
    /\ panicked
    /\ \E u \in SubmittingThreads : pc[u].at = "record" /\ pc[u].queue = "Transfer"
    /\ last_surface # <<>>
    /\ last_surface[1].op = "present_image"
    /\ last_surface[1].image = "s1"
    /\ last_surface[1].result \notin {"Ok", "Invalidated", "BadImage", "NoRender"}
    /\ "s1" \notin surfaces["w1"].presenting

-----------------------------------------------------------------------------
(* C40                                                                     *)

\* The native objects of the surface that were destroyed more than once.
DestroyedTwice(surface) ==
    {h \in DOMAIN surfaces[surface].destroy_calls : surfaces[surface].destroy_calls[h] > 1}

\* C40: whatever create_surface, update_surface, failing or not, and destroy_surface
\* calls were made, no swapchain, image view or semaphore of a surface was destroyed
\* twice, the surface has as many semaphore pairs as images, and the rolling index of
\* acquire_image is inside the semaphore list.
C40_SurfaceObjectsDestroyedOnce ==
    \A surface \in Surfaces :
        /\ DestroyedTwice(surface) = {}
        /\ Len(surfaces[surface].semaphores) = Len(surfaces[surface].images)
        /\ surfaces[surface].semaphores # <<>> =>
               surfaces[surface].next_semaphore < Len(surfaces[surface].semaphores)
        /\ (last_surface # <<>> /\ last_surface[1].op = "acquire_image") =>
               last_surface[1].result \in {"Ok", "NoImages"}

\* update_surface failed after the release of swapchain 1, before a new swapchain was
\* stored; the next release of the surface handed swapchain 1 to destroy_swapchain
\* again.
C40_SwapchainDestroyedAgainReached ==
    /\ last_surface # <<>>
    /\ last_surface[1].op \in {"update_surface", "destroy_surface"}
    /\ last_surface[1].before.swapchain = 1
    /\ last_surface[1].before.images = <<>>
    /\ last_surface[1].before.destroy_calls[SwapchainHandle(1)] = 1
    /\ surfaces["w1"].destroy_calls[SwapchainHandle(1)] = 2

====
